---- MODULE Spec2Model ----
(***************************************************************************)
(* Verification model of the sugar-python pagination engine:               *)
(*   sugar.core.pagination   paginate, paginate_by_id, collect_paginated   *)
(*   sugar.contracts.base    BaseContract._paginate, ._paginate_by_id      *)
(* One sweep is one behaviour: Init picks the function that runs, its      *)
(* arguments and the backing store of the listing endpoint; every action   *)
(* is one whole iteration of that function's `while True` loop.            *)
(***************************************************************************)
EXTENDS Integers, Sequences, FiniteSets, TLC

\* ------------------------------------------------------------------ bounds
MaxN == 3          \* records in the backing store
MaxId == 3         \* largest record id of an id-keyed store
MaxLimit == 3      \* largest page size (limit) a sweep is started with
MaxRetries == 3    \* largest max_retries a sweep is started with
MinScan == 2       \* narrow id window of the id-keyed listing
MaxCursor == MaxId + 2   \* faults are injected only at cursors up to here

\* ------------------------------------------------------- program constants
DefaultMaxRetries == 3   \* paginate(max_retries=3), used by collect_paginated
DefaultLimit == 500      \* paginate_by_id(limit=500)
DefaultStartOffset == 0  \* paginate(start_offset=0), _paginate(start_offset=0)
DefaultStartId == 1      \* paginate_by_id(start_id=1), _paginate_by_id(start_id=1)
id_index == 0            \* paginate_by_id(id_index=0), all_paginated(id_index=0)

\* An optional value: None, or Some(x).
None == <<>>
Some(x) == <<x>>
The(opt) == opt[1]

VARIABLES
    fn,                     \* the function that runs this sweep
    data,                   \* backing store of the listing endpoint
    scan,                   \* id window the id-keyed listing scans per call
    limit,                  \* argument limit
    max_retries,            \* argument max_retries
    reduce_limit_on_error,  \* argument reduce_limit_on_error
    max_items,              \* argument max_items of collect_paginated
    offset,                 \* local offset (the cursor)
    current_limit,          \* local current_limit (the page size)
    retries,                \* local retries
    pc,                     \* "loop", "done" (returned) or "raised"
    err,                    \* the PaginationError raised, or None
    pages,                  \* the batches yielded so far, in order
    results,                \* results / all_results of the collecting functions
    lastReq,                \* (limit, offset) of the latest fetch
    lastOut,                \* how the latest iteration went
    lastBatch,              \* the batch the latest fetch returned
    failRun,                \* consecutive failed iterations at lastReq.offset
    failStreak              \* consecutive failed iterations since a success

params == <<fn, data, scan, limit, max_retries, reduce_limit_on_error, max_items>>
locals == <<offset, current_limit, retries, pc, err>>
output == <<pages, results>>
history == <<lastReq, lastOut, lastBatch, failRun, failStreak>>
vars == <<params, locals, output, history>>

\* ------------------------------------------------------ the price engine
\* State of sugar.services.price_provider: one PriceProvider with the sources
\* it was constructed with. A sweep leaves it alone, as the pricing model
\* further down leaves the sweep alone.
VARIABLES
    configured,         \* names of the sources PriceProvider was given
    connectors,         \* SpotPriceOracle.connectors
    tokens_df,          \* OraclePriceSource._tokens_df: None or Some(index -> decimals)
    now,                \* time.time(), in ticks
    cache,              \* PriceProvider._cache: lowercase address -> PriceResult
    eth_price_cache,    \* OraclePriceSource._eth_price_cache
    eth_usd_rate,       \* OraclePriceSource._eth_usd_rate: None or Some(rate)
    eth_usd_timestamp,  \* OraclePriceSource._eth_usd_timestamp
    call,               \* the latest call on the PriceProvider, with its arguments
    log,                \* what that call did, in order
    ret,                \* what that call returned or raised
    resolved_at,        \* lowercase address -> time its cached PriceResult was resolved
    threads,            \* caller -> where its get_price_usd stands, with its locals
    client              \* SugarClient: its fields, None before one is built

wiring == <<configured, connectors, tokens_df>>
stores == <<cache, eth_price_cache, eth_usd_rate, eth_usd_timestamp>>
trace == <<call, log, ret, resolved_at>>
pvars == <<wiring, now, stores, trace, threads, client>>

\* The function with no entries: an empty dict.
EmptyDict == <<>>

\* A PriceProvider nobody has built a source for and nobody calls.
PriceIdle ==
    /\ configured = {}
    /\ connectors = <<>>
    /\ tokens_df = None
    /\ now = 0
    /\ cache = EmptyDict
    /\ eth_price_cache = EmptyDict
    /\ eth_usd_rate = None
    /\ eth_usd_timestamp = 0
    /\ call = None
    /\ log = <<>>
    /\ ret = None
    /\ resolved_at = EmptyDict
    /\ threads = EmptyDict
    /\ client = None

\* ------------------------------------------------------------ the listing
Min(a, b) == IF a < b THEN a ELSE b
Max(a, b) == IF a > b THEN a ELSE b

\* A stored record: its id, and whether the tuple the endpoint returns for it
\* is well formed. The tuple is (id, position) or, malformed, the empty tuple.
Row(store, i) == IF store[i].ok THEN <<store[i].id, i>> ELSE <<>>

Rows(store) == [i \in 1..Len(store) |-> Row(store, i)]

\* Python slice s[lo:hi] of a list (0-based, half open, clipped).
Slice(s, lo, hi) == SubSeq(s, lo + 1, Min(hi, Len(s)))

\* fetch_fn(limit, offset) of an offset listing: data[offset : offset + limit].
OffsetListing(store, lim, off) == Slice(Rows(store), off, off + lim)

\* Positions of the records an id-keyed call scans: ids in [cursor, cursor+scan).
InWindow(store, w, cursor) ==
    {i \in 1..Len(store) : store[i].id >= cursor /\ store[i].id < cursor + w}

RECURSIVE Ascending(_)
Ascending(S) ==
    IF S = {} THEN <<>>
    ELSE LET m == CHOOSE x \in S : \A y \in S : x <= y
         IN <<m>> \o Ascending(S \ {m})

\* fetch_fn(limit, id) of an id-keyed listing: the first `limit` records found
\* scanning ids upward from the cursor.
IdListing(store, w, lim, cursor) ==
    LET pos == Ascending(InWindow(store, w, cursor))
    IN [k \in 1..Min(lim, Len(pos)) |-> Row(store, pos[k])]

RECURSIVE Flatten(_)
Flatten(ps) == IF ps = <<>> THEN <<>> ELSE Head(ps) \o Flatten(Tail(ps))

\* ----------------------------------------------------------- initial state
NonDecreasing(f) == \A i \in DOMAIN f : \A j \in DOMAIN f : i <= j => f[i] <= f[j]

IdSeqs == UNION {{f \in [1..n -> 1..MaxId] : NonDecreasing(f)} : n \in 0..MaxN}

\* Stores of an id-keyed listing: non-decreasing ids, at most one malformed record.
IdStores ==
    {[i \in 1..Len(f) |-> [id |-> f[i], ok |-> i # bad]] :
        f \in IdSeqs, bad \in 0..MaxN}

\* Stores of an offset listing: n well-formed records.
OffsetStores == {[i \in 1..n |-> [id |-> i, ok |-> TRUE]] : n \in 0..MaxN}

OffsetFns == {"paginate", "collect_paginated", "_paginate"}
IdFns == {"paginate_by_id", "_paginate_by_id"}

Init ==
    /\ fn \in OffsetFns \cup IdFns
    /\ data \in (IF fn \in OffsetFns THEN OffsetStores ELSE IdStores)
    /\ scan \in (IF fn \in OffsetFns THEN {MaxId} ELSE {MinScan, MaxId})
    /\ limit \in (IF fn = "paginate_by_id" THEN 1..MaxLimit \cup {DefaultLimit} ELSE 1..MaxLimit)
    /\ max_retries \in (IF fn \in {"paginate", "paginate_by_id"}
                           THEN 1..MaxRetries ELSE {DefaultMaxRetries})
    /\ reduce_limit_on_error \in (IF fn \in {"paginate", "paginate_by_id"}
                                     THEN BOOLEAN ELSE {TRUE})
    /\ max_items \in (IF fn = "collect_paginated" THEN {None} \cup {Some(k) : k \in 0..MaxN} ELSE {None})
    /\ offset = (IF fn \in OffsetFns THEN DefaultStartOffset ELSE DefaultStartId)
    /\ current_limit = limit
    /\ retries = 0
    /\ pc = "loop"
    /\ err = None
    /\ pages = <<>>
    /\ results = <<>>
    /\ lastReq = None
    /\ lastOut = "none"
    /\ lastBatch = <<>>
    /\ failRun = 0
    /\ failStreak = 0
    /\ PriceIdle

\* ------------------------------------------------- the code's computations
Halve_Decrement(cl) == Max(1, cl - 1)
Halve_Double(cl) == cl * 2
\* current_limit = max(1, current_limit // 2)
Halve(cl) == Max(1, cl \div 2)

Exhausted_Late(r) == r > max_retries
\* if retries >= max_retries: raise PaginationError(...)
Exhausted(r) == r >= max_retries

\* if reduce_limit_on_error and current_limit > 1:
CanReduce(cl) == reduce_limit_on_error /\ cl > 1

AdvanceByLen_Limit(off, result) == off + limit
\* offset += len(result)                      (paginate)
AdvanceByLen(off, result) == off + Len(result)

AdvanceByLimit_One(off) == off + 1
\* offset += limit                            (BaseContract._paginate)
AdvanceByLimit(off) == off + limit

\* result[-1][id_index] exists: a tuple t has t[id_index] iff len(t) > id_index
HasId(result) == Len(result[Len(result)]) > id_index

AfterLastId_NoIncrement(result) == result[Len(result)][id_index + 1]
\* last_id = result[-1][id_index]; offset = last_id + 1
AfterLastId(result) == result[Len(result)][id_index + 1] + 1

Skip_Stay(off) == off
\* offset += 1                                (skip the problematic id)
Skip(off) == off + 1

\* PaginationError(method=..., offset=offset, ...)
PaginationError(method, off) == [method |-> method, offset |-> off]

\* results.extend(page); if max_items is not None and len(results) >= max_items:
\*     results = results[:max_items]; break
Extended(page) == results \o page
Truncates(page) == max_items # None /\ Len(Extended(page)) >= The(max_items)

\* --------------------------------------------------------------- history
Remember(out, batch) ==
    /\ lastReq' = Some([limit |-> current_limit, offset |-> offset])
    /\ lastOut' = out
    /\ lastBatch' = batch
    /\ failStreak' = (IF out \in {"fetch_error", "index_error"} THEN failStreak + 1 ELSE 0)
    /\ failRun' = (IF out \in {"fetch_error", "index_error"}
                   THEN (IF lastOut \in {"fetch_error", "index_error"}
                            /\ The(lastReq).offset = offset
                         THEN failRun + 1 ELSE 1)
                   ELSE 0)

Running(fns) == pc = "loop" /\ fn \in fns

\* ------------------------------------------- paginate / collect_paginated
PaginateFns == {"paginate", "collect_paginated"}

\* except Exception of paginate: count, raise when exhausted, else halve the
\* limit or retry with the same limit; the offset is never changed.
PaginateHandler ==
    /\ retries' = retries + 1
    /\ offset' = offset
    /\ IF Exhausted(retries + 1)
       THEN /\ pc' = "raised"
            /\ err' = Some(PaginationError("paginate", offset))
            /\ current_limit' = current_limit
       ELSE /\ pc' = "loop"
            /\ err' = err
            /\ current_limit' = (IF CanReduce(current_limit)
                                 THEN Halve(current_limit) ELSE current_limit)

\* paginate with the short-batch stop of the legacy fetch loop.
Paginate_Page_ShortStop ==
    /\ Running(PaginateFns)
    /\ LET result == OffsetListing(data, current_limit, offset) IN
       /\ result # <<>>
       /\ pages' = Append(pages, result)
       /\ results' = Extended(result)
       /\ offset' = AdvanceByLen(offset, result)
       /\ current_limit' = limit
       /\ retries' = 0
       /\ pc' = (IF Len(result) < current_limit THEN "done" ELSE pc)
       /\ err' = err
       /\ Remember("page", result)
       /\ UNCHANGED pvars
    /\ UNCHANGED params

\* fetch_fn returns a non-empty result: yield it, advance, reset limit and retries.
\* A collect_paginated that reached max_items truncates and breaks out of the
\* generator, which then never runs the statements after its yield.
Paginate_Page ==
    /\ Running(PaginateFns)
    /\ LET result == OffsetListing(data, current_limit, offset) IN
       /\ result # <<>>
       /\ pages' = Append(pages, result)
       /\ IF fn = "collect_paginated" /\ Truncates(result)
          THEN /\ results' = Slice(Extended(result), 0, The(max_items))
               /\ pc' = "done"
               /\ UNCHANGED <<offset, current_limit, retries, err>>
          ELSE /\ results' = Extended(result)
               /\ offset' = AdvanceByLen(offset, result)
               /\ current_limit' = limit
               /\ retries' = 0
               /\ UNCHANGED <<pc, err>>
       /\ Remember("page", result)
       /\ UNCHANGED pvars
    /\ UNCHANGED params

\* fetch_fn returns an empty result: break.
Paginate_Empty ==
    /\ Running(PaginateFns)
    /\ OffsetListing(data, current_limit, offset) = <<>>
    /\ pc' = "done"
    /\ Remember("empty", <<>>)
    /\ UNCHANGED pvars
    /\ UNCHANGED <<params, offset, current_limit, retries, err, output>>

\* fetch_fn raises.
Paginate_Except ==
    /\ Running(PaginateFns)
    /\ PaginateHandler
    /\ Remember("fetch_error", <<>>)
    /\ UNCHANGED pvars
    /\ UNCHANGED <<params, output>>

\* --------------------------------------------------------- paginate_by_id
\* except Exception of paginate_by_id: count, raise when exhausted, else halve
\* the limit or skip to the next id with the limit reset.
PaginateByIdHandler ==
    /\ retries' = retries + 1
    /\ IF Exhausted(retries + 1)
       THEN /\ pc' = "raised"
            /\ err' = Some(PaginationError("paginate_by_id", offset))
            /\ UNCHANGED <<offset, current_limit>>
       ELSE /\ pc' = "loop"
            /\ err' = err
            /\ IF CanReduce(current_limit)
               THEN /\ current_limit' = Halve(current_limit)
                    /\ offset' = offset
               ELSE /\ offset' = Skip(offset)
                    /\ current_limit' = limit

\* paginate_by_id with a short-batch stop.
PaginateById_Page_ShortStop ==
    /\ Running({"paginate_by_id"})
    /\ LET result == IdListing(data, scan, current_limit, offset) IN
       /\ result # <<>>
       /\ HasId(result)
       /\ pages' = Append(pages, result)
       /\ results' = Extended(result)
       /\ offset' = AfterLastId(result)
       /\ current_limit' = limit
       /\ retries' = 0
       /\ pc' = (IF Len(result) < current_limit THEN "done" ELSE pc)
       /\ err' = err
       /\ Remember("page", result)
       /\ UNCHANGED pvars
    /\ UNCHANGED params

\* fetch_fn returns a non-empty result whose last record has an id: yield it,
\* move the cursor past that id, reset limit and retries.
PaginateById_Page ==
    /\ Running({"paginate_by_id"})
    /\ LET result == IdListing(data, scan, current_limit, offset) IN
       /\ result # <<>>
       /\ HasId(result)
       /\ pages' = Append(pages, result)
       /\ results' = Extended(result)
       /\ offset' = AfterLastId(result)
       /\ current_limit' = limit
       /\ retries' = 0
       /\ Remember("page", result)
       /\ UNCHANGED pvars
    /\ UNCHANGED <<params, pc, err>>

\* The batch is yielded, then result[-1][id_index] raises IndexError inside the
\* try block, so the except branch handles it like a failed fetch.
PaginateById_BadRecord ==
    /\ Running({"paginate_by_id"})
    /\ LET result == IdListing(data, scan, current_limit, offset) IN
       /\ result # <<>>
       /\ ~HasId(result)
       /\ pages' = Append(pages, result)
       /\ results' = Extended(result)
       /\ PaginateByIdHandler
       /\ Remember("index_error", result)
       /\ UNCHANGED pvars
    /\ UNCHANGED params

PaginateById_Empty ==
    /\ Running({"paginate_by_id"})
    /\ IdListing(data, scan, current_limit, offset) = <<>>
    /\ pc' = "done"
    /\ Remember("empty", <<>>)
    /\ UNCHANGED pvars
    /\ UNCHANGED <<params, offset, current_limit, retries, err, output>>

PaginateById_Except ==
    /\ Running({"paginate_by_id"})
    /\ PaginateByIdHandler
    /\ Remember("fetch_error", <<>>)
    /\ UNCHANGED pvars
    /\ UNCHANGED <<params, output>>

\* ------------------------------------------------- BaseContract._paginate
BasePaginate_Page ==
    /\ Running({"_paginate"})
    /\ LET result == OffsetListing(data, limit, offset) IN
       /\ result # <<>>
       /\ pages' = Append(pages, result)
       /\ results' = Extended(result)
       /\ offset' = AdvanceByLimit(offset)
       /\ Remember("page", result)
       /\ UNCHANGED pvars
    /\ UNCHANGED <<params, current_limit, retries, pc, err>>

BasePaginate_Empty ==
    /\ Running({"_paginate"})
    /\ OffsetListing(data, limit, offset) = <<>>
    /\ pc' = "done"
    /\ Remember("empty", <<>>)
    /\ UNCHANGED pvars
    /\ UNCHANGED <<params, offset, current_limit, retries, err, output>>

\* except Exception: log a warning and break; all_results is returned.
BasePaginate_Except ==
    /\ Running({"_paginate"})
    /\ pc' = "done"
    /\ Remember("fetch_error", <<>>)
    /\ UNCHANGED pvars
    /\ UNCHANGED <<params, offset, current_limit, retries, err, output>>

\* ------------------------------------------- BaseContract._paginate_by_id
\* except Exception: halve the limit, or skip to the next id; never raises.
BasePaginateByIdHandler ==
    /\ IF current_limit > 1
       THEN /\ current_limit' = Halve(current_limit)
            /\ offset' = offset
       ELSE /\ offset' = Skip(offset)
            /\ current_limit' = limit
    /\ UNCHANGED <<retries, pc, err>>

BasePaginateById_Page ==
    /\ Running({"_paginate_by_id"})
    /\ LET result == IdListing(data, scan, current_limit, offset) IN
       /\ result # <<>>
       /\ HasId(result)
       /\ pages' = Append(pages, result)
       /\ results' = Extended(result)
       /\ offset' = AfterLastId(result)
       /\ current_limit' = limit
       /\ Remember("page", result)
       /\ UNCHANGED pvars
    /\ UNCHANGED <<params, retries, pc, err>>

BasePaginateById_BadRecord ==
    /\ Running({"_paginate_by_id"})
    /\ LET result == IdListing(data, scan, current_limit, offset) IN
       /\ result # <<>>
       /\ ~HasId(result)
       /\ pages' = Append(pages, result)
       /\ results' = Extended(result)
       /\ BasePaginateByIdHandler
       /\ Remember("index_error", result)
       /\ UNCHANGED pvars
    /\ UNCHANGED params

BasePaginateById_Empty ==
    /\ Running({"_paginate_by_id"})
    /\ IdListing(data, scan, current_limit, offset) = <<>>
    /\ pc' = "done"
    /\ Remember("empty", <<>>)
    /\ UNCHANGED pvars
    /\ UNCHANGED <<params, offset, current_limit, retries, err, output>>

BasePaginateById_Except ==
    /\ Running({"_paginate_by_id"})
    /\ offset <= MaxCursor
    /\ BasePaginateByIdHandler
    /\ Remember("fetch_error", <<>>)
    /\ UNCHANGED pvars
    /\ UNCHANGED <<params, output>>

\* ------------------------------------------------------- the specification
Next ==
    \/ Paginate_Page
    \/ Paginate_Empty
    \/ Paginate_Except
    \/ PaginateById_Page
    \/ PaginateById_BadRecord
    \/ PaginateById_Empty
    \/ PaginateById_Except
    \/ BasePaginate_Page
    \/ BasePaginate_Empty
    \/ BasePaginate_Except
    \/ BasePaginateById_Page
    \/ BasePaginateById_BadRecord
    \/ BasePaginateById_Empty
    \/ BasePaginateById_Except

\* One sweep of the pagination engine.
SweepSpec == Init /\ [][Next]_<<vars, pvars>>

\* ================================================================ claims
Failed == lastOut \in {"fetch_error", "index_error"}
Req == The(lastReq)
WellFormed == \A i \in 1..Len(data) : data[i].ok
Draining == fn = "paginate" \/ (fn = "collect_paginated" /\ max_items = None)
Distinct(s) == \A i \in 1..Len(s) : \A j \in 1..Len(s) : i # j => s[i] # s[j]
\* ids of the records yielded so far
SeenIds == {results[i][id_index + 1] : i \in {k \in 1..Len(results) : Len(results[k]) > id_index}}

\* C1: an offset sweep through paginate / collect_paginated (max_items = None)
\* that ends without max_retries consecutive failures has returned exactly the
\* records of the backing store, each once, in their original order.
C1_Completeness ==
    (Draining /\ pc # "loop" /\ failStreak < max_retries)
        => (pc = "done" /\ results = Rows(data) /\ Flatten(pages) = Rows(data))

C1_Witness ==
    /\ fn = "collect_paginated" /\ max_items = None /\ pc = "done"
    /\ Len(data) = 3 /\ limit = 3
    /\ Len(pages) = 2 /\ Len(pages[1]) = 1 /\ Len(pages[2]) = 2
    /\ results = Rows(data)

\* C2 (as claimed): in paginate, a non-empty batch shorter than the page size
\* requested for that fetch ends the sweep.
C2_ShortBatchStops ==
    (fn \in PaginateFns /\ lastOut = "page" /\ Len(lastBatch) < Req.limit)
        => pc = "done"

\* C2 (amended): in paginate no non-empty batch, short or full, ends the sweep;
\* the sweep ends normally only on an empty batch, so a short batch is followed
\* by one more fetch.
C2_EmptyBatchStops ==
    Draining => /\ (lastOut = "page" => pc = "loop")
                /\ (pc = "done" <=> lastOut = "empty")

C2_Witness ==
    /\ fn = "paginate" /\ lastOut = "page" /\ pc = "loop"
    /\ Len(lastBatch) < Req.limit /\ Req.limit = limit

\* C3: in paginate_by_id and BaseContract._paginate_by_id, over a store whose
\* records carry non-decreasing ids, after every non-empty batch the cursor is
\* (id of the batch's last record) + 1, which is max(ids seen so far) + 1,
\* fetch failures included.
C3_CursorAfterLastId ==
    (fn \in IdFns /\ lastOut = "page" /\ WellFormed)
        => /\ offset = lastBatch[Len(lastBatch)][id_index + 1] + 1
           /\ offset - 1 \in SeenIds
           /\ \A i \in SeenIds : i < offset

C3_Witness ==
    /\ fn = "paginate_by_id" /\ lastOut = "page" /\ WellFormed
    /\ scan = MaxId /\ Len(pages) = 2 /\ Len(pages[1]) < limit
    /\ offset > 1 + Len(results)

\* C4 (as claimed): after a failed fetch at page size > 1 that does not exhaust
\* the retries, the next fetch is at the same cursor with half the page size.
C4_HalveAndRetry ==
    (fn \in {"paginate", "paginate_by_id"} /\ lastOut = "fetch_error"
        /\ Req.limit > 1 /\ pc = "loop")
        => (offset = Req.offset /\ current_limit = Req.limit \div 2 /\ current_limit >= 1)

\* C4 (amended): the same, when reduce_limit_on_error is true (the default).
C4_HalveAndRetryWhenReducing ==
    (fn \in {"paginate", "paginate_by_id"} /\ lastOut = "fetch_error"
        /\ Req.limit > 1 /\ pc = "loop" /\ reduce_limit_on_error)
        => (offset = Req.offset /\ current_limit = Req.limit \div 2 /\ current_limit >= 1)

C4_Witness ==
    /\ fn = "paginate_by_id" /\ lastOut = "fetch_error" /\ reduce_limit_on_error
    /\ Req.limit = 3 /\ current_limit = 1 /\ pc = "loop" /\ offset = Req.offset

\* C5 (as claimed): in paginate and paginate_by_id alike, after a failed fetch
\* at page size 1 that does not exhaust the retries, the next fetch is at
\* cursor + 1 with the page size reset to limit.
C5_SkipInBoth ==
    (fn \in {"paginate", "paginate_by_id"} /\ lastOut = "fetch_error"
        /\ Req.limit = 1 /\ pc = "loop")
        => (offset = Req.offset + 1 /\ current_limit = limit)

\* C5 (amended): only paginate_by_id skips; paginate retries at the same cursor
\* with the page size still 1.
C5_SkipOnlyById ==
    (lastOut = "fetch_error" /\ Req.limit = 1 /\ pc = "loop")
        => /\ fn = "paginate_by_id" => (offset = Req.offset + 1 /\ current_limit = limit)
           /\ fn = "paginate" => (offset = Req.offset /\ current_limit = 1)

C5_Witness ==
    /\ fn = "paginate_by_id" /\ lastOut = "fetch_error" /\ pc = "loop"
    /\ Req.limit = 1 /\ limit > 1 /\ current_limit = limit /\ offset = Req.offset + 1
    /\ reduce_limit_on_error

\* C6 (as claimed): a sweep raises PaginationError exactly when max_retries
\* consecutive fetches have failed at one cursor, and reports that cursor.
C6_ExhaustedAtOneCursor ==
    (fn \in PaginateFns \cup {"paginate_by_id"} /\ WellFormed)
        => /\ pc = "raised" => (failRun = max_retries /\ The(err).offset = Req.offset)
           /\ failRun >= max_retries => pc = "raised"

\* C6 (amended): a sweep raises exactly when max_retries consecutive iterations
\* have failed since the last successful batch; the error reports the cursor of
\* the last failed fetch; in paginate all those failures are at that cursor.
C6_ExhaustedSinceSuccess ==
    fn \in PaginateFns \cup {"paginate_by_id"}
        => /\ pc = "raised" <=> failStreak >= max_retries
           /\ pc = "raised" =>
                /\ Failed /\ failStreak = max_retries
                /\ The(err).offset = Req.offset
                /\ fn \in PaginateFns => failRun = max_retries
           /\ pc # "raised" => err = None

C6_Witness ==
    /\ fn = "paginate_by_id" /\ pc = "raised" /\ WellFormed
    /\ failStreak = max_retries /\ failRun < max_retries

\* C7: paginate_by_id ends normally only on an empty batch: no non-empty batch,
\* however short, ends the sweep normally, and an empty batch ends it at once
\* and without error.
C7_EmptyOnlyStop ==
    fn = "paginate_by_id"
        => /\ pc = "done" => lastOut = "empty"
           /\ lastOut = "page" => pc = "loop"
           /\ lastOut = "empty" => (pc = "done" /\ err = None)

C7_Witness ==
    /\ fn = "paginate_by_id" /\ pc = "done" /\ WellFormed
    /\ Len(pages) = 2 /\ Len(pages[1]) < limit /\ scan = MinScan
    /\ Len(results) = Len(data)

\* C8: every fetch of paginate and paginate_by_id is issued with a page size
\* between 1 and limit.
C8_PageSizeBound ==
    fn \in PaginateFns \cup {"paginate_by_id"}
        => /\ 1 <= current_limit /\ current_limit <= limit
           /\ lastReq # None => (1 <= Req.limit /\ Req.limit <= limit)

C8_Witness ==
    /\ fn = "paginate" /\ pc = "loop" /\ limit >= 3 /\ current_limit = 1
    /\ lastOut = "fetch_error" /\ Req.limit = limit

\* C9 (as claimed): in paginate and BaseContract._paginate, after a non-empty
\* batch the cursor has advanced by the page size requested.
C9_AdvanceByRequested ==
    (fn \in {"paginate", "_paginate"} /\ lastOut = "page")
        => offset = Req.offset + Req.limit

\* C9 (amended): BaseContract._paginate advances by the page size requested;
\* paginate advances by the number of records received.
C9_AdvancePerFunction ==
    lastOut = "page"
        => /\ fn = "_paginate" => offset = Req.offset + Req.limit
           /\ fn = "paginate" => offset = Req.offset + Len(lastBatch)

C9_Witness ==
    /\ fn = "_paginate" /\ lastOut = "page" /\ Len(lastBatch) < limit
    /\ offset = Req.offset + limit /\ offset > Len(data)

\* C10 (as claimed): in paginate_by_id a batch whose last record has no field
\* at id_index ends the sweep with the fault, without a re-fetch, and no record
\* is yielded more than once.
C10_MalformedNotRetried ==
    fn = "paginate_by_id"
        => /\ lastOut = "index_error" => pc = "raised"
           /\ Distinct(results)

\* ======================================================= the price engine
\* sugar.services.price_provider. A PriceProvider is checked with the sources
\* it is handed standing for any source (ResolverSpec), an OraclePriceSource
\* with the contract behind it standing for any contract (OracleSpec,
\* PrefetchSpec). Every action is one whole call of a public method.

\* ------------------------------------------------------------------ bounds
TicksPerSecond == 2   \* resolution of the clock: ticks in a second
MaxTokens == 17       \* plain 18-decimal tokens a caller can name

\* ------------------------------------------------------- program constants
ORACLE_BATCH_SIZE == 15   \* price_provider.ORACLE_BATCH_SIZE
eth_usd_ttl == 60         \* OraclePriceSource._eth_usd_ttl, seconds
cache_ttl == 60           \* PriceProvider._cache_ttl, seconds
DefaultDecimals == 18     \* _get_token_decimals: "Default to 18 decimals"

\* ------------------------------------------------------------------- time
\* time.time() is a float; the model counts it in ticks.
Seconds(s) == s * TicksPerSecond

\* int(time.time()): whole seconds, the fraction dropped.
IntTime_Ceil(t) == (t + TicksPerSecond - 1) \div TicksPerSecond
IntTime(t) == t \div TicksPerSecond

\* --------------------------------------------------------------- Decimal
\* A Decimal n/d * 10^e. Products and quotients are exact here; the 28-digit
\* rounding of Python's default context is left out.
Dec(n, d, e) == [n |-> n, d |-> d, e |-> e]
DecMul(a, b) == Dec(a.n * b.n, a.d * b.d, a.e + b.e)
\* Decimal("1") / a, for a > 0
DecInv(a) == Dec(a.d, a.n, 0 - a.e)
\* a * Decimal(10) ** k
Scale10(a, k) == [a EXCEPT !.e = @ + k]
Positive(a) == a.n > 0
One == Dec(1, 1, 0)
Zero == Dec(0, 1, 0)
\* Decimal("3000"), the fallback of _get_eth_usd_rate
FallbackEthUsd == Dec(3000, 1, 0)

\* -------------------------------------------------------------- addresses
\* An address string: which token it names, and the letter case it is
\* written in ("lower", or "checksum" for the mixed case web3 returns).
Addr(kind, n, form) == [kind |-> kind, n |-> n, form |-> form]

\* str.lower()
Lower(a) == [a EXCEPT !.form = "lower"]

USDC == Addr("usdc", 0, "lower")     \* a stablecoin of 6 decimals
DAI == Addr("dai", 0, "lower")       \* a stablecoin of 18 decimals
CBBTC == Addr("cbbtc", 0, "lower")   \* 8 decimals, in KNOWN_DECIMALS
Tok(i) == Addr("tok", i, "lower")    \* a token in neither table
\* a 6-decimal token that only a tokens DataFrame knows
Listed6 == Addr("listed6", 0, "lower")

STABLECOINS == {USDC, DAI}
WETH_ADDRESS == Addr("weth", 0, "lower")
KNOWN_DECIMALS == (USDC :> 6) @@ (CBBTC :> 8)

\* The tokens DataFrame of the client: indexed by the addresses as web3
\* returned them, with their decimals.
TokensFrame ==
    ([Listed6 EXCEPT !.form = "checksum"] :> 6) @@ ([Tok(1) EXCEPT !.form = "checksum"] :> 18)

\* ------------------------------------------------------------ dictionaries
Has(d, k) == k \in DOMAIN d
Put(d, k, v) == (k :> v) @@ d

\* ----------------------------------------------------- what a call leaves
\* One entry of log: a call on a source ("get", "prefetch") or a rate query
\* the oracle source sent to the contract ("rates").
Event(ev, src, tokens, val, rates) ==
    [ev |-> ev, src |-> src, tokens |-> tokens, val |-> val, rates |-> rates]

\* ---------------------------------------------------- SpotPriceOracle
\* How a contract call ends: it reverts or times out, it finds no route (rate
\* 0 for every token), or it quotes a positive rate for every token.
Outcomes == {"raise", "zero", "quote"}

\* The raw rate of a quote: the contract's integer over 10^18.
Quoted == Dec(2, 1, 0)

\* get_many_rates_to_eth: one rate per source token, or None for an exception.
get_many_rates_to_eth(src_tokens, out) ==
    IF out = "raise" THEN None
    ELSE Some([j \in 1..Len(src_tokens) |-> IF out = "zero" THEN Zero ELSE Quoted])

RatesQuery(src_tokens, rates) == Event("rates", "oracle", src_tokens, None, rates)

\* ------------------------------------------------------ OraclePriceSource
\* The source's fields as one record.
Oracle == [cache |-> eth_price_cache, rate |-> eth_usd_rate, ts |-> eth_usd_timestamp]

IsStablecoin_CaseSensitive(a) == a \in STABLECOINS
IsStablecoin(a) == Lower(a) \in STABLECOINS

GetTokenDecimals(a) ==
    IF Lower(a) \in DOMAIN KNOWN_DECIMALS THEN KNOWN_DECIMALS[Lower(a)]
    ELSE IF tokens_df # None /\ a \in DOMAIN The(tokens_df) THEN The(tokens_df)[a]
    ELSE DefaultDecimals

AdjustRateForDecimals(rate, a) ==
    IF GetTokenDecimals(a) = 18 THEN rate ELSE Scale10(rate, GetTokenDecimals(a) - 18)

\* "Check cache" of _get_eth_usd_rate at time t
EthUsdFresh_AtTtl(o, t) == o.rate # None /\ t - o.ts <= Seconds(eth_usd_ttl)
EthUsdFresh(o, t) == o.rate # None /\ t - o.ts < Seconds(eth_usd_ttl)

\* _get_eth_usd_rate at time t, the contract answering with out.
GetEthUsdRate(o, t, out) ==
    IF EthUsdFresh(o, t)
    THEN [o |-> o, log |-> <<>>, ret |-> The(o.rate)]
    ELSE IF connectors = <<>>
    THEN [o |-> o, log |-> <<>>, ret |-> FallbackEthUsd]
    ELSE LET stablecoin == connectors[1]
             rates == get_many_rates_to_eth(<<stablecoin>>, out)
             adjusted_rate == AdjustRateForDecimals(The(rates)[1], stablecoin)
         IN IF rates # None /\ Positive(The(rates)[1])
            THEN [o |-> [o EXCEPT !.rate = Some(DecInv(adjusted_rate)), !.ts = t],
                  log |-> <<RatesQuery(<<stablecoin>>, rates)>>,
                  ret |-> DecInv(adjusted_rate)]
            ELSE [o |-> o,
                  log |-> <<RatesQuery(<<stablecoin>>, rates)>>,
                  ret |-> FallbackEthUsd]

\* OraclePriceSource.get_price_usd; w.tok and w.usd are how the contract
\* answers the token's query and the connector's.
OracleGetPriceUsd(o, a, t, w) ==
    LET token_lower == Lower(a)
        usd == GetEthUsdRate(o, t, w.usd)
        rates == get_many_rates_to_eth(<<a>>, w.tok)
        adjusted_rate == AdjustRateForDecimals(The(rates)[1], a)
        cached == [o EXCEPT !.cache = Put(@, token_lower, adjusted_rate)]
        usd2 == GetEthUsdRate(cached, t, w.usd)
    IN  IF IsStablecoin(a)
        THEN [o |-> o, log |-> <<>>, ret |-> Some(One)]
        ELSE IF token_lower = Lower(WETH_ADDRESS)
        THEN [o |-> usd.o, log |-> usd.log, ret |-> Some(usd.ret)]
        ELSE IF Has(o.cache, token_lower)
        THEN IF Positive(o.cache[token_lower])
             THEN [o |-> usd.o, log |-> usd.log,
                   ret |-> Some(DecMul(o.cache[token_lower], usd.ret))]
             ELSE [o |-> o, log |-> <<>>, ret |-> None]
        ELSE IF rates # None /\ Positive(The(rates)[1])
        THEN [o |-> usd2.o, log |-> <<RatesQuery(<<a>>, rates)>> \o usd2.log,
              ret |-> Some(DecMul(adjusted_rate, usd2.ret))]
        ELSE [o |-> o, log |-> <<RatesQuery(<<a>>, rates)>>, ret |-> None]

\* The tokens prefetch_prices still has to ask for, in the caller's order.
TokensToFetch(o, token_addresses) ==
    SelectSeq(token_addresses,
              LAMBDA a : /\ ~Has(o.cache, Lower(a))
                         /\ ~IsStablecoin(a)
                         /\ Lower(a) # Lower(WETH_ADDRESS))

BatchKeys(batch) == {Lower(batch[j]) : j \in 1..Len(batch)}

\* The last place of key k in batch: a later assignment overwrites an earlier.
LastAt(batch, k) ==
    CHOOSE j \in 1..Len(batch) :
        Lower(batch[j]) = k /\ \A i \in (j + 1)..Len(batch) : Lower(batch[i]) # k

\* for j, addr in enumerate(batch): cache[addr.lower()] = adjusted rate
CacheRates(c, batch, rates) ==
    [k \in DOMAIN c \cup BatchKeys(batch) |->
        IF k \in BatchKeys(batch)
        THEN AdjustRateForDecimals(rates[LastAt(batch, k)], batch[LastAt(batch, k)])
        ELSE c[k]]

\* for addr in batch: cache[addr.lower()] = Decimal(0)
CacheZeros_Nothing(c, batch) == c
CacheZeros(c, batch) ==
    [k \in DOMAIN c \cup BatchKeys(batch) |-> IF k \in BatchKeys(batch) THEN Zero ELSE c[k]]

\* The tokens of the batch that starts at index i.
Batch_Wide(tokens_to_fetch, i) == Slice(tokens_to_fetch, i, i + ORACLE_BATCH_SIZE + 1)
Batch(tokens_to_fetch, i) == Slice(tokens_to_fetch, i, i + ORACLE_BATCH_SIZE)

\* The loop of prefetch_prices from index i on; outs[b] is how the contract
\* answers the b-th batch.
RECURSIVE PrefetchBatches(_, _, _, _)
PrefetchBatches(o, tokens_to_fetch, i, outs) ==
    IF i >= Len(tokens_to_fetch)
    THEN [o |-> o, log |-> <<>>]
    ELSE LET batch == Batch(tokens_to_fetch, i)
             rates == get_many_rates_to_eth(batch, outs[(i \div ORACLE_BATCH_SIZE) + 1])
             o1 == IF rates # None
                   THEN [o EXCEPT !.cache = CacheRates(@, batch, The(rates))]
                   ELSE [o EXCEPT !.cache = CacheZeros(@, batch)]
             rest == PrefetchBatches(o1, tokens_to_fetch, i + ORACLE_BATCH_SIZE, outs)
         IN [o |-> rest.o, log |-> <<RatesQuery(batch, rates)>> \o rest.log]

\* OraclePriceSource.prefetch_prices
OraclePrefetchPrices(o, token_addresses, t, w) ==
    LET tokens_to_fetch == TokensToFetch(o, token_addresses)
        usd == GetEthUsdRate(o, t, w.usd)
        rest == PrefetchBatches(usd.o, tokens_to_fetch, 0, w.batch)
    IN  IF tokens_to_fetch = <<>>
        THEN [o |-> o, log |-> <<>>]
        ELSE [o |-> rest.o, log |-> usd.log \o rest.log]

\* OraclePriceSource.clear_cache
OracleClearCache(o) == [o EXCEPT !.cache = EmptyDict, !.rate = None]

\* ------------------------------------------------------------ PriceProvider
PriceResult(price, source, timestamp) ==
    [price |-> price, source |-> source, timestamp |-> timestamp]

PriceNotAvailableError(token_address, sources_tried) ==
    [token_address |-> token_address, sources_tried |-> sources_tried]

\* The provider's own fields as one record; at is resolved_at.
Provider == [cache |-> cache, at |-> resolved_at]

\* The order get_price_usd tries the sources in.
SourceOrder_CoinGeckoFirst == <<"coingecko", "oracle", "defillama">>
SourceOrder == <<"oracle", "coingecko", "defillama">>

\* The sources a provider is handed stand for any source: asked for a price,
\* one returns None or a Decimal. The price tells which source it came from.
SourcePrice(src) ==
    IF src = "oracle" THEN Dec(5, 1, 0)
    ELSE IF src = "coingecko" THEN Dec(7, 1, 0) ELSE Dec(9, 1, 0)

\* What the three sources return during one call, for a token any of them
\* can price.
Answers ==
    {f \in [{"oracle", "coingecko", "defillama"} -> {None, Some(Dec(5, 1, 0)), Some(Dec(7, 1, 0)), Some(Dec(9, 1, 0))}] :
        \A src \in DOMAIN f : f[src] \in {None, Some(SourcePrice(src))}}

\* A token no source has a price for.
Unpriced == {Tok(2)}

\* source.get_price_usd(a) during a call the sources answer as answers.
SourceGetPriceUsd(src, a, answers) ==
    IF Lower(a) \in Unpriced THEN None ELSE answers[src]

\* The if-blocks of get_price_usd from the i-th source on: the first price
\* that is not None ends them.
RECURSIVE TrySources(_, _, _)
TrySources(a, answers, i) ==
    IF i > Len(SourceOrder)
    THEN [log |-> <<>>, ret |-> None, source |-> "none"]
    ELSE IF SourceOrder[i] \notin configured
    THEN TrySources(a, answers, i + 1)
    ELSE LET price == SourceGetPriceUsd(SourceOrder[i], a, answers)
             asked == Event("get", SourceOrder[i], <<a>>, price, None)
             rest == TrySources(a, answers, i + 1)
         IN IF price # None
            THEN [log |-> <<asked>>, ret |-> price, source |-> SourceOrder[i]]
            ELSE [rest EXCEPT !.log = <<asked>> \o @]

\* sources_tried once every configured source has been asked.
SourcesTried_Empty == <<>>
SourcesTried == SelectSeq(SourceOrder, LAMBDA src : src \in configured)

Returned(value) == [val |-> value, exc |-> None]
Raised(error) == [val |-> None, exc |-> Some(error)]

\* time.time() - cached.timestamp < self._cache_ttl
Fresh_AtTtl(cached, t) == t - Seconds(cached.timestamp) <= Seconds(cache_ttl)
Fresh(cached, t) == t - Seconds(cached.timestamp) < Seconds(cache_ttl)

\* get_price_usd caching a zero price when no source has one.
GetPriceUsd_NegativeCache(S, a, raise_on_failure, t, answers) ==
    LET cache_key == Lower(a)
        tried == TrySources(a, answers, 1)
        result == PriceResult(IF tried.ret = None THEN Dec(0, 1, 0) ELSE The(tried.ret),
                              tried.source, IntTime(t))
    IN  IF Has(S.cache, cache_key) /\ Fresh(S.cache[cache_key], t)
        THEN [S |-> S, log |-> <<>>, ret |-> Returned(Some(S.cache[cache_key]))]
        ELSE [S |-> [S EXCEPT !.cache = Put(@, cache_key, result),
                              !.at = Put(@, cache_key, t)],
              log |-> tried.log,
              ret |-> IF tried.ret # None THEN Returned(Some(result))
                      ELSE IF raise_on_failure
                      THEN Raised(PriceNotAvailableError(a, SourcesTried))
                      ELSE Returned(None)]
\* PriceProvider.get_price_usd at time t
GetPriceUsd(S, a, raise_on_failure, t, answers) ==
    LET cache_key == Lower(a)
        tried == TrySources(a, answers, 1)
        result == PriceResult(The(tried.ret), tried.source, IntTime(t))
    IN  IF Has(S.cache, cache_key) /\ Fresh(S.cache[cache_key], t)
        THEN [S |-> S, log |-> <<>>, ret |-> Returned(Some(S.cache[cache_key]))]
        ELSE IF tried.ret # None
        THEN [S |-> [S EXCEPT !.cache = Put(@, cache_key, result),
                              !.at = Put(@, cache_key, t)],
              log |-> tried.log,
              ret |-> Returned(Some(result))]
        ELSE [S |-> S,
              log |-> tried.log,
              ret |-> IF raise_on_failure
                      THEN Raised(PriceNotAvailableError(a, SourcesTried))
                      ELSE Returned(None)]

\* PriceProvider.prefetch_prices: the oracle source, if there is one, is
\* handed the list.
PrefetchPrices(token_addresses) ==
    IF "oracle" \in configured
    THEN <<Event("prefetch", "oracle", token_addresses, None, None)>>
    ELSE <<>>

\* results[address] = value, on a dict kept as its items in insertion order
SetItem(items, address, value) ==
    IF \E j \in 1..Len(items) : items[j].key = address
    THEN [j \in 1..Len(items) |->
            IF items[j].key = address THEN [key |-> address, value |-> value]
            ELSE items[j]]
    ELSE Append(items, [key |-> address, value |-> value])

\* The loop of get_prices_batch from the i-th address on.
RECURSIVE ResolveEach(_, _, _, _, _, _, _)
ResolveEach(S, token_addresses, i, t, answers, items, done) ==
    IF i > Len(token_addresses)
    THEN [S |-> S, log |-> done, results |-> items]
    ELSE LET r == GetPriceUsd(S, token_addresses[i], FALSE, t, answers)
         IN ResolveEach(r.S, token_addresses, i + 1, t, answers,
                        SetItem(items, token_addresses[i], r.ret.val),
                        done \o <<Event("resolve", "provider", <<token_addresses[i]>>,
                                        None, None)>> \o r.log)

\* PriceProvider.get_prices_batch
GetPricesBatch_PrefetchLast(S, token_addresses, t, answers) ==
    [ResolveEach(S, token_addresses, 1, t, answers, <<>>, <<>>)
        EXCEPT !.log = @ \o PrefetchPrices(token_addresses)]
GetPricesBatch(S, token_addresses, t, answers) ==
    ResolveEach(S, token_addresses, 1, t, answers, <<>>, PrefetchPrices(token_addresses))

\* PriceProvider.clear_cache
ClearCache(S) == [S EXCEPT !.cache = EmptyDict, !.at = EmptyDict]

\* ----------------------------------------------------------------- actions
Checksum(a) == [a EXCEPT !.form = "checksum"]

\* The clock stops a second after one cache lifetime.
MaxNow == Seconds(cache_ttl) + TicksPerSecond

\* The pagination engine at rest: a finished sweep of an empty listing.
SweepIdle ==
    /\ fn = "paginate"
    /\ data = <<>>
    /\ scan = MaxId
    /\ limit = 1
    /\ max_retries = DefaultMaxRetries
    /\ reduce_limit_on_error = TRUE
    /\ max_items = None
    /\ offset = DefaultStartOffset
    /\ current_limit = 1
    /\ retries = 0
    /\ pc = "done"
    /\ err = None
    /\ pages = <<>>
    /\ results = <<>>
    /\ lastReq = None
    /\ lastOut = "none"
    /\ lastBatch = <<>>
    /\ failRun = 0
    /\ failStreak = 0

\* Time passes between two calls: just under one cache lifetime, or a whole one.
Tick ==
    \E d \in {Seconds(cache_ttl) - 1, Seconds(cache_ttl)} :
        /\ now + d <= MaxNow
        /\ now' = now + d
        /\ UNCHANGED <<client, threads, wiring, stores, trace, vars>>

\* --------------------------------------------- a PriceProvider and its callers
\* The addresses a caller asks one price for: one token, in either letter case.
Asked == {Tok(1), Checksum(Tok(1))}

\* The lists a caller resolves or prefetches in one call.
BatchLists == {<<Tok(2), Checksum(Tok(1)), Tok(1)>>, <<Tok(1), Tok(2), Tok(1)>>}

\* PriceProvider(oracle, coingecko, defillama), each a source or None.
ResolverInit ==
    /\ configured \in SUBSET {"oracle", "coingecko", "defillama"}
    /\ connectors = <<>>
    /\ tokens_df = None
    /\ now \in 0..(TicksPerSecond - 1)
    /\ cache = EmptyDict
    /\ eth_price_cache = EmptyDict
    /\ eth_usd_rate = None
    /\ eth_usd_timestamp = 0
    /\ call = None
    /\ log = <<>>
    /\ ret = None
    /\ resolved_at = EmptyDict
    /\ threads = EmptyDict
    /\ client = None
    /\ SweepIdle

\* The provider's fields after a call that left it as S.
Becomes(S) ==
    /\ cache' = S.cache
    /\ resolved_at' = S.at
    /\ UNCHANGED <<client, threads, wiring, now, eth_price_cache, eth_usd_rate, eth_usd_timestamp, vars>>

\* The latest call: the method, its arguments, when it was made and the
\* state it found.
Call(op, token_addresses, raise_on_failure, before) ==
    [op |-> op, tokens |-> token_addresses, raise_on_failure |-> raise_on_failure,
     time |-> now, before |-> before]

CallGetPriceUsd ==
    \E a \in Asked, raise_on_failure \in BOOLEAN, answers \in Answers :
        LET r == GetPriceUsd(Provider, a, raise_on_failure, now, answers)
        IN /\ Becomes(r.S)
           /\ call' = Some(Call("get_price_usd", <<a>>, raise_on_failure, Provider))
           /\ log' = r.log
           /\ ret' = Some(r.ret)

CallGetPricesBatch ==
    \E token_addresses \in BatchLists, answers \in Answers :
        LET r == GetPricesBatch(Provider, token_addresses, now, answers)
        IN /\ Becomes(r.S)
           /\ call' = Some(Call("get_prices_batch", token_addresses, FALSE, Provider))
           /\ log' = r.log
           /\ ret' = Some(Returned(r.results))

CallPrefetchPrices ==
    \E token_addresses \in BatchLists :
        /\ Becomes(Provider)
        /\ call' = Some(Call("prefetch_prices", token_addresses, FALSE, Provider))
        /\ log' = PrefetchPrices(token_addresses)
        /\ ret' = Some(Returned(None))

CallClearCache ==
    /\ Becomes(ClearCache(Provider))
    /\ call' = Some(Call("clear_cache", <<>>, FALSE, Provider))
    /\ log' = <<>>
    /\ ret' = Some(Returned(None))

ResolverNext ==
    \/ CallGetPriceUsd
    \/ CallGetPricesBatch
    \/ CallPrefetchPrices
    \/ CallClearCache
    \/ Tick

ResolverSpec == ResolverInit /\ [][ResolverNext]_<<vars, pvars>>

\* ------------------------------------------------------- claims C11 - C15
\* The latest call was get_price_usd.
Got == call # None /\ The(call).op = "get_price_usd"

\* The address the latest get_price_usd was asked about, and its cache key.
Token == The(call).tokens[1]
Key == Lower(Token)

\* The entry get_price_usd found under the key, if any, and its age in ticks.
Found == Has(The(call).before.cache, Key)
Entry == The(call).before.cache[Key]
Age == The(call).time - Seconds(Entry.timestamp)

\* The call found nothing it could serve from the cache.
Miss == ~Found \/ Age >= Seconds(60)

\* The sources the call asked, in the order it asked them.
AskedSources == [j \in 1..Len(log) |-> log[j].src]

\* The configured sources in the order oracle, coingecko, defillama.
InPriority == SelectSeq(<<"oracle", "coingecko", "defillama">>, LAMBDA src : src \in configured)

\* The call ended on a source that returned a price.
Answered == log # <<>> /\ log[Len(log)].val # None

\* C11: on a cache miss get_price_usd asks the configured sources in the order
\* oracle, coingecko, defillama; it returns the first price that is not None,
\* tagged with the name of the source that gave it, writes that result to the
\* cache, and asks no source after the one that answered.
C11_ResolverPriority ==
    (Got /\ Miss) =>
        /\ \A j \in 1..Len(log) : log[j].ev = "get" /\ log[j].tokens = <<Token>>
        /\ Len(log) <= Len(InPriority)
        /\ AskedSources = SubSeq(InPriority, 1, Len(log))
        /\ \A j \in 1..(Len(log) - 1) : log[j].val = None
        /\ IF Answered
           THEN /\ The(ret).val # None
                /\ The(The(ret).val).price = The(log[Len(log)].val)
                /\ The(The(ret).val).source = log[Len(log)].src
                /\ Has(cache, Key) /\ cache[Key] = The(The(ret).val)
           ELSE /\ Len(log) = Len(InPriority)
                /\ The(ret).val = None

\* A miss that the second source answered while a third stood by unasked.
C11_Witness ==
    /\ Got /\ Miss /\ Answered
    /\ configured = {"oracle", "coingecko", "defillama"}
    /\ AskedSources = <<"oracle", "coingecko">>
    /\ The(The(ret).val).source = "coingecko"

\* When the entry the call found had been resolved, to the tick.
ResolvedAt == The(call).before.at[Key]

\* C12 as claimed: a get_price_usd made less than 60 s after the call that
\* resolved the cached entry asks no source; made when the entry's age has
\* reached 60 s, it asks the sources again.
C12_WithinTtlOneQuery ==
    (Got /\ Found) =>
        /\ The(call).time - ResolvedAt < Seconds(60) => log = <<>>
        /\ The(call).time - ResolvedAt >= Seconds(60) => log # <<>>

\* C12, amended: the entry's age is counted from its timestamp, the whole
\* second in which it was resolved. A get_price_usd made while that age is
\* under 60 s (so any call up to 59 s after the resolving one) asks no source
\* and returns the entry; once that age has reached 60 s (so any call 60 s or
\* more after the resolving one) it asks the sources again, from the first
\* configured one.
C12_TtlFromTimestamp ==
    (Got /\ Found) =>
        /\ Age < Seconds(60) => log = <<>> /\ The(ret).val = Some(Entry)
        /\ Age >= Seconds(60) => log # <<>> /\ log[1].ev = "get" /\ log[1].src = InPriority[1]
        /\ The(call).time - ResolvedAt <= Seconds(59) => log = <<>>
        /\ The(call).time - ResolvedAt >= Seconds(60) => log # <<>>
        /\ Entry.timestamp = ResolvedAt \div TicksPerSecond

\* A second call, later than the first, served from the cache.
C12_Witness ==
    /\ Got /\ Found /\ Age < Seconds(60)
    /\ The(call).time > ResolvedAt
    /\ log = <<>>

\* The items of the mapping the latest get_prices_batch returned.
Mapping == The(ret).val

\* Every PriceResult in what the latest call returned.
ReturnedResults ==
    IF call = None \/ The(ret).val = None THEN {}
    ELSE IF The(call).op = "get_price_usd" THEN {The(The(ret).val)}
    ELSE IF The(call).op = "get_prices_batch"
    THEN {The(Mapping[j].value) : j \in {i \in 1..Len(Mapping) : Mapping[i].value # None}}
    ELSE {}

\* C13: a PriceResult returned from the cache has an age, now - timestamp,
\* strictly below 60 s, and so has every PriceResult returned at all; an entry
\* whose age is 60 s or more is not returned unless the sources were asked again.
C13_CacheFreshness ==
    /\ \A result \in ReturnedResults : The(call).time - Seconds(result.timestamp) < Seconds(60)
    /\ (Got /\ Found /\ log = <<>> /\ The(ret).val # None) =>
            /\ The(ret).val = Some(Entry)
            /\ Age < Seconds(60)
            /\ The(call).time - ResolvedAt < Seconds(60)
    /\ (Got /\ Found /\ Age >= Seconds(60)) => log # <<>>

\* An entry returned from the cache just before it expires.
C13_Witness ==
    /\ Got /\ Found /\ log = <<>>
    /\ The(ret).val = Some(Entry)
    /\ Age = Seconds(60) - 1

\* The latest get_price_usd found no price: nothing fresh in the cache and no
\* configured source returned one.
Unavailable == Got /\ Miss /\ ~Answered

\* C14 as claimed: when no configured source yields a price, get_price_usd
\* returns None if raise_on_failure is false and raises PriceNotAvailableError
\* listing every configured source in priority order if it is true; with no
\* source configured it returns None.
C14_NoSourceReturnsNone ==
    /\ Unavailable =>
            IF The(call).raise_on_failure /\ configured # {}
            THEN The(ret) = Raised(PriceNotAvailableError(Token, InPriority))
            ELSE The(ret) = Returned(None)
    /\ (Got /\ configured = {}) => The(ret) = Returned(None)

\* C14, amended: with no source configured get_price_usd returns None only if
\* raise_on_failure is false; if it is true it raises PriceNotAvailableError
\* with an empty sources_tried, as the first rule says.
C14_PriceUnavailable ==
    /\ Unavailable =>
            IF The(call).raise_on_failure
            THEN The(ret) = Raised(PriceNotAvailableError(Token, InPriority))
            ELSE The(ret) = Returned(None)
    /\ (Got /\ The(ret).exc # None) => Unavailable /\ The(call).raise_on_failure
    /\ (Got /\ configured = {}) => Unavailable /\ log = <<>>

\* Three sources asked in order, none with a price, and the error raised.
C14_Witness ==
    /\ Unavailable /\ The(call).raise_on_failure
    /\ AskedSources = <<"oracle", "coingecko", "defillama">>
    /\ The(ret).exc = Some(PriceNotAvailableError(Token, <<"oracle", "coingecko", "defillama">>))

\* The latest call was get_prices_batch.
Batched == call # None /\ The(call).op = "get_prices_batch"

\* The addresses of a list without their repetitions, in order of first mention.
RECURSIVE FirstMentions(_, _)
FirstMentions(list, i) ==
    IF i > Len(list) THEN <<>>
    ELSE (IF \E j \in 1..(i - 1) : list[j] = list[i] THEN <<>> ELSE <<list[i]>>)
         \o FirstMentions(list, i + 1)

\* The per-token resolutions of the batch, in order.
Resolutions == SelectSeq(log, LAMBDA x : x.ev = "resolve")

\* C15: get_prices_batch hands the oracle source the whole list before the
\* first per-token resolution, then resolves every token of the list in order,
\* and returns a mapping with one entry per address given, None included,
\* its keys in the caller's order.
C15_BatchOrder ==
    Batched =>
        /\ IF "oracle" \in configured
           THEN /\ log # <<>>
                /\ log[1].ev = "prefetch" /\ log[1].tokens = The(call).tokens
                /\ \A j \in 2..Len(log) : log[j].ev # "prefetch"
           ELSE \A j \in 1..Len(log) : log[j].ev # "prefetch"
        /\ [j \in 1..Len(Resolutions) |-> Resolutions[j].tokens[1]] = The(call).tokens
        /\ [j \in 1..Len(Mapping) |-> Mapping[j].key] = FirstMentions(The(call).tokens, 1)

\* A batch of three addresses, prefetched, one of them without a price.
C15_Witness ==
    /\ Batched /\ "oracle" \in configured
    /\ Len(Mapping) = 3
    /\ Mapping[1].value = None
    /\ Mapping[2].value # None
    /\ Len(log) > 4

\* ---------------------------------------- an OraclePriceSource and its callers
\* What a call on the source found: the keys in its cache and the USD rate.
Before ==
    [cached |-> DOMAIN eth_price_cache, rate |-> eth_usd_rate, ts |-> eth_usd_timestamp]

\* The source's fields after a call that left it as o.
OracleBecomes(o) ==
    /\ eth_price_cache' = o.cache
    /\ eth_usd_rate' = o.rate
    /\ eth_usd_timestamp' = o.ts
    /\ UNCHANGED <<client, threads, wiring, now, cache, resolved_at, vars>>

\* source.get_price_usd(a), for one of the addresses in asked
OracleCallGetPriceUsd(asked, outs) ==
    \E a \in asked, w \in outs :
        LET r == OracleGetPriceUsd(Oracle, a, now, w)
        IN /\ OracleBecomes(r.o)
           /\ call' = Some(Call("get_price_usd", <<a>>, FALSE, Before))
           /\ log' = r.log
           /\ ret' = Some(Returned(r.ret))

\* source.prefetch_prices(token_addresses), for one of the lists in lists
OracleCallPrefetchPrices(lists, outs) ==
    \E token_addresses \in lists, w \in outs :
        LET r == OraclePrefetchPrices(Oracle, token_addresses, now, w)
        IN /\ OracleBecomes(r.o)
           /\ call' = Some(Call("prefetch_prices", token_addresses, FALSE, Before))
           /\ log' = r.log
           /\ ret' = Some(Returned(None))

\* source.clear_cache()
OracleCallClearCache ==
    /\ OracleBecomes(OracleClearCache(Oracle))
    /\ call' = Some(Call("clear_cache", <<>>, FALSE, Before))
    /\ log' = <<>>
    /\ ret' = Some(Returned(None))

\* OraclePriceSource(oracle, usdc_address, tokens_df) over a contract with the
\* given connectors.
OracleInit(connector_lists, frames) ==
    /\ configured = {"oracle"}
    /\ connectors \in connector_lists
    /\ tokens_df \in frames
    /\ now = 0
    /\ cache = EmptyDict
    /\ eth_price_cache = EmptyDict
    /\ eth_usd_rate = None
    /\ eth_usd_timestamp = 0
    /\ call = None
    /\ log = <<>>
    /\ ret = None
    /\ resolved_at = EmptyDict
    /\ threads = EmptyDict
    /\ client = None
    /\ SweepIdle

\* -- tokens of every kind, one batch at most
\* The addresses a caller asks the source one price for.
Probes == {Tok(1), Listed6, Checksum(Listed6), Checksum(USDC), WETH_ADDRESS}

\* The list a caller prefetches.
MixedList == <<Checksum(USDC), WETH_ADDRESS, CBBTC, Checksum(Listed6), Tok(1)>>

\* The contract answers the token's query, the connector's and the batch.
OracleWorlds ==
    {[tok |-> tok, usd |-> usd, batch |-> <<tok>>] : tok \in Outcomes, usd \in Outcomes}

OracleStart == OracleInit({<<>>, <<USDC>>, <<DAI>>}, {None, Some(TokensFrame)})

OracleGet == OracleCallGetPriceUsd(Probes, OracleWorlds)

OraclePrefetch == OracleCallPrefetchPrices({MixedList}, OracleWorlds)

OracleNext ==
    \/ OracleGet
    \/ OraclePrefetch
    \/ OracleCallClearCache
    \/ Tick

OracleSpec == OracleStart /\ [][OracleNext]_<<vars, pvars>>

\* -- many plain tokens, several batches
Plain(n) == [i \in 1..n |-> Tok(i)]

\* The lists a caller prefetches: more tokens than one batch holds, behind a
\* stablecoin and WETH; and a full batch followed by its first token again.
LongLists ==
    {<<Checksum(USDC), WETH_ADDRESS>> \o Plain(MaxTokens),
     Plain(ORACLE_BATCH_SIZE) \o <<Checksum(Tok(1))>>}

\* The addresses a caller asks the source one price for: a token of the first
\* batch and one of the second.
BatchProbes == {Tok(1), Tok(ORACLE_BATCH_SIZE + 1)}

MaxBatches == (MaxTokens + ORACLE_BATCH_SIZE - 1) \div ORACLE_BATCH_SIZE

\* The contract answers each batch in its own way, and the connector's query
\* like the token's or the first batch.
PrefetchWorlds ==
    {[tok |-> batch[1], usd |-> batch[1], batch |-> batch] : batch \in [1..MaxBatches -> Outcomes]}

PrefetchStart == OracleInit({<<USDC>>}, {None})

PrefetchGet == OracleCallGetPriceUsd(BatchProbes, PrefetchWorlds)

PrefetchLong == OracleCallPrefetchPrices(LongLists, PrefetchWorlds)

PrefetchNext ==
    \/ PrefetchGet
    \/ PrefetchLong
    \/ OracleCallClearCache

PrefetchSpec == PrefetchStart /\ [][PrefetchNext]_<<vars, pvars>>

\* ------------------------------------------------------- claims C16 - C20
\* The latest call was prefetch_prices.
Prefetched == call # None /\ The(call).op = "prefetch_prices"

\* A known stable asset, and the reference asset, in whatever letter case.
StableAsset(a) == a.kind \in {"usdc", "dai"}
ReferenceAsset(a) == a.kind = "weth"

\* The query that asks the rate of the first connector.
ConnectorQuery(ev) == connectors # <<>> /\ ev.tokens = <<connectors[1]>>

\* The batch queries of the latest call, in the order they were sent.
BatchQueries == SelectSeq(log, LAMBDA ev : ~ConnectorQuery(ev))

\* The tokens (as cache keys) of the b-th batch query.
TokensOf(b) == {Lower(BatchQueries[b].tokens[j]) : j \in 1..Len(BatchQueries[b].tokens)}

\* The b-th batch query raised.
BatchFailed(b) == BatchQueries[b].rates = None

\* The tokens of the requested list that the prefetch had to ask for: not
\* cached when it began, no stable asset and not the reference asset.
Wanted ==
    {Lower(The(call).tokens[j]) : j \in {i \in 1..Len(The(call).tokens) :
        /\ Lower(The(call).tokens[i]) \notin The(call).before.cached
        /\ ~StableAsset(The(call).tokens[i])
        /\ ~ReferenceAsset(The(call).tokens[i])}}

\* The requested list names no token twice, in whatever letter case.
NamedOnce ==
    \A i, j \in 1..Len(The(call).tokens) :
        Lower(The(call).tokens[i]) = Lower(The(call).tokens[j]) => i = j

\* The token is cached as unknown: present, with no positive rate.
Unknown(k) == Has(eth_price_cache, k) /\ ~Positive(eth_price_cache[k])

\* prefetch_prices returns normally and every token it had to ask for is in
\* one of its batch queries, whichever of them raised.
PrefetchGoesOn ==
    Prefetched =>
        /\ ret = Some(Returned(None))
        /\ \A k \in Wanted : \E b \in 1..Len(BatchQueries) : k \in TokensOf(b)

\* get_price_usd for a token it found cached as unknown returns None and
\* sends no query.
UnknownNotRetried ==
    (Got /\ Key \in The(call).before.cached /\ Unknown(Key)) =>
        The(ret).val = None /\ log = <<>>

QueriesWith(k) == {b \in 1..Len(BatchQueries) : k \in TokensOf(b)}

\* No query of the latest prefetch carries more than ORACLE_BATCH_SIZE tokens.
WidthKept == Prefetched => \A j \in 1..Len(log) : Len(log[j].tokens) <= 15

Listing(k) == {x \in DOMAIN The(tokens_df) : Lower(x) = k}

\* The decimals D of a token, as the tables the source was given tell them:
\* KNOWN_DECIMALS, then the tokens DataFrame, and 18 for a token in neither.
DecimalsOf(a) ==
    IF Lower(a) \in DOMAIN KNOWN_DECIMALS THEN KNOWN_DECIMALS[Lower(a)]
    ELSE IF tokens_df # None /\ Listing(Lower(a)) # {}
    THEN The(tokens_df)[CHOOSE x \in Listing(Lower(a)) : TRUE]
    ELSE 18

\* A quoted raw rate multiplied by 10^(D-18) once.
CorrectedRate(a) == Scale10(Quoted, DecimalsOf(a) - 18)

\* The reference/USD rates a price can be computed with: the one derived
\* from the first connector, or the fallback.
UsdRates ==
    {FallbackEthUsd} \cup
    (IF connectors = <<>> THEN {} ELSE {DecInv(CorrectedRate(connectors[1]))})

HeldRate == The(call).before.rate
HeldYoung == HeldRate # None /\ The(call).time - The(call).before.ts < Seconds(60)

\* The latest call needed the reference/USD rate: a price of the reference
\* asset, a price computed for a token, or a prefetch with tokens to ask for.
UsedRate ==
    \/ Got /\ ReferenceAsset(Token)
    \/ Got /\ ~StableAsset(Token) /\ The(ret).val # None
    \/ Prefetched /\ Wanted # {}

\* The connector queries of the latest call (their places in log).
ConnectorQueries == {j \in 1..Len(log) : ConnectorQuery(log[j])}

\* The latest call's connector query was answered with a positive rate.
Requoted ==
    \E j \in ConnectorQueries : log[j].rates # None /\ Positive(The(log[j].rates)[1])

SourceUntouched ==
    /\ DOMAIN eth_price_cache = The(call).before.cached
    /\ eth_usd_rate = The(call).before.rate
    /\ eth_usd_timestamp = The(call).before.ts

\* C20: get_price_usd for a known stable asset, in any letter case, returns
\* exactly 1 and sends no query (and leaves the source as it was);
\* prefetch_prices never puts a stable asset in a batch.
C20_StableShortCircuit ==
    /\ (Got /\ StableAsset(Token)) =>
           /\ The(ret).val = Some(One)
           /\ log = <<>>
           /\ SourceUntouched
    /\ Prefetched =>
           \A b \in 1..Len(BatchQueries) :
               \A j \in 1..Len(BatchQueries[b].tokens) : ~StableAsset(BatchQueries[b].tokens[j])

\* A stable asset written in checksum case was asked for and priced 1, the
\* source holding no rate and an empty cache.
C20_Witness ==
    /\ Got
    /\ Token = Checksum(USDC)
    /\ The(ret).val = Some(One)
    /\ eth_usd_rate = None
    /\ eth_price_cache = EmptyDict

\* ================================================ the external index sources
\* CoinGeckoPriceSource and DefiLlamaPriceSource, one of them at a time: the
\* variable configured names its class, cache is its _cache (lowercase
\* address -> price and time.time() of the fetch), log the HTTP requests of
\* the latest call. The HTTP service behind it stands for any service.
source_cache_ttl == 60   \* CoinGeckoPriceSource._cache_ttl, DefiLlamaPriceSource._cache_ttl

\* How session.get(...) and what follows it end: the request raises (timeout,
\* connection error), raise_for_status() raises (non-2xx), response.json()
\* raises, the payload has no entry for the token, the entry lacks the price
\* field, or the payload has a price under the address in lower case or under
\* the address as it was sent.
HttpOutcomes == {"timeout", "status", "garbage", "empty", "nofield", "lower", "given"}

\* The prices a payload can carry.
IndexPrices == {Dec(7, 1, 0), Dec(11, 1, 0)}

\* What the service does during one call.
HttpWorlds == {[http |-> h, price |-> p] : h \in HttpOutcomes, p \in IndexPrices}

\* session.get(url, ...), as logged.
HttpRequest(src, a) == Event("http", src, <<a>>, None, None)

\* The key the class looks its price up under in the payload:
\* data[token_address.lower()] or coins[f"{chain}:{token_address}"].
PayloadKey(src, a) == IF src = "coingecko" THEN Lower(a) ELSE a

\* The payload holds a price under that key.
InPayload(src, a, http) ==
    \/ http = "lower" /\ PayloadKey(src, a) = Lower(a)
    \/ http = "given" /\ PayloadKey(src, a) = a

\* "Check cache" of get_price_usd at time t
IndexFresh(entry, t) == t - entry.timestamp < Seconds(source_cache_ttl)

\* return None, after the request: the token is not in the payload, or the
\* except branch.
IndexAbsent_Retry(c, request) == [c |-> c, log |-> <<request, request>>, ret |-> None]
IndexAbsent(c, request) == [c |-> c, log |-> <<request>>, ret |-> None]

\* CoinGeckoPriceSource.get_price_usd / DefiLlamaPriceSource.get_price_usd of
\* the source src with cache c, at time t, the service behaving as w.
IndexGetPriceUsd(src, c, a, t, w) ==
    LET cache_key == Lower(a)
    IN  IF Has(c, cache_key) /\ IndexFresh(c[cache_key], t)
        THEN [c |-> c, log |-> <<>>, ret |-> Some(c[cache_key].price)]
        ELSE IF InPayload(src, a, w.http)
        THEN [c |-> Put(c, cache_key, [price |-> w.price, timestamp |-> t]),
              log |-> <<HttpRequest(src, a)>>,
              ret |-> Some(w.price)]
        ELSE IndexAbsent(c, HttpRequest(src, a))

\* CoinGeckoPriceSource(chain_id) or DefiLlamaPriceSource(chain_id)
IndexInit ==
    /\ configured \in {{"coingecko"}, {"defillama"}}
    /\ connectors = <<>>
    /\ tokens_df = None
    /\ now \in 0..(TicksPerSecond - 1)
    /\ cache = EmptyDict
    /\ eth_price_cache = EmptyDict
    /\ eth_usd_rate = None
    /\ eth_usd_timestamp = 0
    /\ call = None
    /\ log = <<>>
    /\ ret = None
    /\ resolved_at = EmptyDict
    /\ threads = EmptyDict
    /\ client = None
    /\ SweepIdle

\* source.get_price_usd(a)
IndexCallGetPriceUsd ==
    \E src \in configured, a \in Asked, w \in HttpWorlds :
        LET r == IndexGetPriceUsd(src, cache, a, now, w)
        IN /\ cache' = r.c
           /\ call' = Some(Call("get_price_usd", <<a>>, FALSE, [cache |-> cache, http |-> w.http]))
           /\ log' = r.log
           /\ ret' = Some(Returned(r.ret))
           /\ UNCHANGED <<client, threads, wiring, now, eth_price_cache, eth_usd_rate, eth_usd_timestamp, resolved_at, vars>>

IndexNext ==
    \/ IndexCallGetPriceUsd
    \/ Tick

IndexSpec == IndexInit /\ [][IndexNext]_<<vars, pvars>>

\* ============================================================ DataProcessor
\* sugar.services.data_processor. Its methods are functions of their
\* arguments and of what the price provider answers; call holds the arguments
\* of the one call a run makes, ret what it returned.

\* Decimal + Decimal
DecAdd(a, b) ==
    LET m == Min(a.e, b.e)
    IN Dec(a.n * b.d * 10^(a.e - m) + b.n * a.d * 10^(b.e - m), a.d * b.d, m)

\* from_wei(value, decimals) for a value of at most 28 digits: value / 10^decimals
Scaled(value, decimals) == Dec(value, 1, 0 - decimals)

\* One row of lp_df, the columns combine_lp_with_rewards reads.
Pool(lp, token0, token1, reserve0, reserve1, token0_fees, token1_fees) ==
    [lp |-> lp, token0 |-> token0, token1 |-> token1, reserve0 |-> reserve0,
     reserve1 |-> reserve1, token0_fees |-> token0_fees, token1_fees |-> token1_fees]

\* One row of epochs_df: bribes and fees are lists of (token, amount); votes
\* and emissions are carried into the result as these two are.
Epoch(lp, bribes, fees) == [lp |-> lp, bribes |-> bribes, fees |-> fees]

\* One reward entry (token, amount), the amount a float of whole tokens.
Reward(token, amount) == [token |-> token, amount |-> Dec(amount, 1, 0)]

\* self._prices.get_price_usd(token): the provider stands for any provider;
\* quotes tells it which tokens have a price, and the price.
ProviderGetPriceUsd(quotes, token) ==
    IF quotes[Lower(token)] = None THEN None
    ELSE Some(PriceResult(The(quotes[Lower(token)]), "oracle", 0))

\* lp_df.merge(epochs_df[...], on="lp", how=...): the rows of lp_df in their
\* order, each with the reward rows of its lp; with how = "left", a pool with
\* no reward row is kept, its reward columns NaN.
RECURSIVE Merge(_, _, _)
Merge(lp_df, epochs_df, how) ==
    IF lp_df = <<>> THEN <<>>
    ELSE LET row == Head(lp_df)
             matches == SelectSeq(epochs_df, LAMBDA ep : ep.lp = row.lp)
             joined == [j \in 1..Len(matches) |->
                           [pool |-> row, bribes |-> Some(matches[j].bribes),
                            fees |-> Some(matches[j].fees)]]
             alone == <<[pool |-> row, bribes |-> None, fees |-> None]>>
         IN (IF matches = <<>> /\ how = "left" THEN alone ELSE joined)
            \o Merge(Tail(lp_df), epochs_df, how)

\* The loop of _price_rewards from entry i on.
RECURSIVE PriceRewardsFrom(_, _, _)
PriceRewardsFrom(rewards, quotes, i) ==
    IF i > Len(rewards) THEN Zero
    ELSE LET price_result == ProviderGetPriceUsd(quotes, rewards[i].token)
             rest == PriceRewardsFrom(rewards, quotes, i + 1)
         IN IF price_result # None
            THEN DecAdd(DecMul(rewards[i].amount, The(price_result).price), rest)
            ELSE rest

\* DataProcessor._price_rewards
PriceRewards_AssumeOne(rewards, quotes) ==
    IF rewards = <<>> THEN Zero
    ELSE DecAdd(rewards[1].amount, PriceRewardsFrom(rewards, quotes, 2))
PriceRewards(rewards, quotes) == PriceRewardsFrom(rewards, quotes, 1)

\* DataProcessor._get_reward_token_prices
RewardTokenPrices(rewards, quotes) ==
    [i \in 1..Len(rewards) |->
        LET price_result == ProviderGetPriceUsd(quotes, rewards[i].token)
        IN [token |-> rewards[i].token,
            amount |-> rewards[i].amount,
            price_usd |-> IF price_result # None THEN Some(The(price_result).price) ELSE None,
            value_usd |-> IF price_result # None
                          THEN Some(DecMul(rewards[i].amount, The(price_result).price))
                          ELSE None]]

\* DataProcessor._get_token_decimals
ProcessorTokenDecimals(token_address, frame) ==
    IF token_address \in DOMAIN frame THEN frame[token_address] ELSE 18

\* DataProcessor._price_token_amount
PriceTokenAmount(amount_wei, token_address, frame, quotes) ==
    LET decimals == ProcessorTokenDecimals(token_address, frame)
        amount == Scaled(amount_wei, decimals)
        price_result == ProviderGetPriceUsd(quotes, token_address)
    IN IF amount_wei = 0 THEN Zero
       ELSE IF price_result # None THEN DecMul(amount, The(price_result).price)
       ELSE Zero

\* DataProcessor._get_token_price
TokenPrice(token_address, quotes) ==
    LET price_result == ProviderGetPriceUsd(quotes, token_address)
    IN IF price_result # None THEN Some(The(price_result).price) ELSE None

\* The priced columns of one merged row; x is a list and not empty, or the
\* column is Decimal(0) / [].
PricedColumns(row, frame, quotes) ==
    LET listed(x) == x # None /\ The(x) # <<>>
    IN [bribes_usd |-> IF listed(row.bribes) THEN PriceRewards(The(row.bribes), quotes) ELSE Zero,
        fees_usd |-> IF listed(row.fees) THEN PriceRewards(The(row.fees), quotes) ELSE Zero,
        bribe_token_prices |-> IF listed(row.bribes)
                               THEN RewardTokenPrices(The(row.bribes), quotes) ELSE <<>>,
        reserve0_usd |-> PriceTokenAmount(row.pool.reserve0, row.pool.token0, frame, quotes),
        reserve1_usd |-> PriceTokenAmount(row.pool.reserve1, row.pool.token1, frame, quotes),
        token0_fees_usd |-> PriceTokenAmount(row.pool.token0_fees, row.pool.token0, frame, quotes),
        token1_fees_usd |-> PriceTokenAmount(row.pool.token1_fees, row.pool.token1, frame, quotes),
        token0_usd |-> TokenPrice(row.pool.token0, quotes),
        token1_usd |-> TokenPrice(row.pool.token1, quotes)]

\* DataProcessor.combine_lp_with_rewards; provider is whether the processor
\* was given a price provider, frame is tokens_df (None or Some).
JoinType_AlwaysLeft(only_with_rewards) == "left"
JoinType(only_with_rewards) == IF only_with_rewards THEN "inner" ELSE "left"

CombineLpWithRewards(provider, lp_df, epochs_df, frame, only_with_rewards, quotes) ==
    LET combined == Merge(lp_df, epochs_df, JoinType(only_with_rewards))
    IN [j \in 1..Len(combined) |->
           [pool |-> combined[j].pool,
            bribes |-> combined[j].bribes,
            fees |-> combined[j].fees,
            usd |-> IF provider /\ frame # None
                    THEN Some(PricedColumns(combined[j], The(frame), quotes))
                    ELSE None]]

\* -- the arguments of a call
\* The pool listing names pools 1 and 2; their first token is in the tokens
\* frame with 6 decimals, the second is in it with 18 or in no table.
PoolRows ==
    {Pool(lp, Checksum(Listed6), token1, reserve0, 3, 2, 0) :
        lp \in 1..2, token1 \in {Checksum(Tok(1)), Tok(2)}, reserve0 \in {0, 5}}

\* The reward listing names pools 1 and 3.
RewardLists ==
    {<<>>, <<Reward(Checksum(Tok(1)), 2)>>, <<Reward(Tok(2), 1), Reward(Checksum(Tok(1)), 2)>>}
EpochRows ==
    {Epoch(lp, bribes, fees) :
        lp \in {1, 3}, bribes \in RewardLists, fees \in {<<>>, <<Reward(Checksum(Listed6), 1)>>}}

\* Listings of at most two rows, no identifier twice.
Listings(rows, id(_)) ==
    {<<>>} \cup {<<r>> : r \in rows}
           \cup {pair \in rows \X rows : id(pair[1]) # id(pair[2])}

\* What the provider can answer during the call.
Quotes == [{Tok(1), Tok(2), Listed6} -> {None, Some(Dec(3, 1, 0))}]

\* DataProcessor(price_provider), with or without a provider, and a tokens
\* frame or none.
Setups == {<<TRUE, Some(TokensFrame)>>, <<TRUE, None>>, <<FALSE, Some(TokensFrame)>>}

CombineInit == PriceIdle /\ SweepIdle

\* processor.combine_lp_with_rewards(lp_df, epochs_df, tokens_df, only_with_rewards)
CallCombine ==
    /\ call = None
    /\ \E lp_df \in Listings(PoolRows, LAMBDA r : r.lp),
          epochs_df \in Listings(EpochRows, LAMBDA r : r.lp),
          setup \in Setups, only_with_rewards \in BOOLEAN, quotes \in Quotes :
           /\ call' = Some([op |-> "combine_lp_with_rewards", provider |-> setup[1],
                            lp_df |-> lp_df, epochs_df |-> epochs_df, tokens_df |-> setup[2],
                            only_with_rewards |-> only_with_rewards, quotes |-> quotes])
           /\ ret' = Some(Returned(CombineLpWithRewards(setup[1], lp_df, epochs_df, setup[2],
                                                         only_with_rewards, quotes)))
    /\ UNCHANGED <<client, threads, wiring, now, stores, log, resolved_at, vars>>

CombineNext == CallCombine

CombineSpec == CombineInit /\ [][CombineNext]_<<vars, pvars>>

\* ---------------------------------------------- the process_* normalisers
\* The rows of a list at the places keep holds of, in their order.
Pick(rows, keep(_)) ==
    LET places == SelectSeq([i \in 1..Len(rows) |-> i], keep)
    IN [j \in 1..Len(places) |-> rows[places[j]]]

\* df.drop_duplicates(subset=[column]): pandas keeps the first row of each
\* value (keep="first" is its default) and the order of the rows.
DropDuplicates_KeepLast(rows, subset) ==
    Pick(rows, LAMBDA i : \A j \in (i + 1)..Len(rows) : rows[j][subset] # rows[i][subset])
DropDuplicates(rows, subset) ==
    Pick(rows, LAMBDA i : \A j \in 1..(i - 1) : rows[j][subset] # rows[i][subset])

\* float(from_wei(x, 18)): the float is taken for the number it rounds.
FloatFromWei(x) == Scaled(x, 18)

\* float / float
DecDiv(a, b) == Dec(a.n * b.d, a.d * b.n, a.e - b.e)

\* a <= 1.0; the amounts here stay below 10^8.
AtMostOne(a) ==
    IF a.e >= 0 THEN a.n * 10^a.e <= a.d ELSE a.n <= a.d * 10^Min(0 - a.e, 8)

\* min(x, 1.0)
MinOne(x) == IF AtMostOne(x) THEN x ELSE One

\* "if not votes or total == 0: return []"
NoWeights_ZeroTotalIgnored(votes, total) == votes = <<>>
NoWeights(votes, total) == votes = <<>> \/ total.n = 0

\* One raw vote (lp, amount in wei) and one derived (lp, weight).
Vote(lp, amount) == [lp |-> lp, amount |-> amount]
Weight(lp, weight) == [lp |-> lp, weight |-> weight]

\* DataProcessor._process_votes
ProcessVotes(votes, governance_amount) ==
    IF NoWeights(votes, governance_amount) THEN <<>>
    ELSE [j \in 1..Len(votes) |->
             Weight(votes[j].lp, MinOne(DecDiv(FloatFromWei(votes[j].amount), governance_amount)))]

\* DataProcessor._process_relay_votes
ProcessRelayVotes(votes, used_voting_amount) ==
    IF NoWeights(votes, used_voting_amount) THEN <<>>
    ELSE [j \in 1..Len(votes) |->
             Weight(votes[j].lp, DecDiv(FloatFromWei(votes[j].amount), used_voting_amount))]

\* The symbol of a token: the tokens frame has it, or (the processor has no
\* web3 provider) it is "UNKNOWN". A token stands for its symbol.
UnknownSymbol == Addr("UNKNOWN", 0, "lower")
GetTokenSymbol(token_address, frame) ==
    IF token_address \in DOMAIN frame THEN token_address ELSE UnknownSymbol

\* DataProcessor._get_cl_symbol: f"CL{type}-{token0_symbol}/{token1_symbol}"
GetClSymbol(row, frame) ==
    [cl |-> row.type, token0 |-> GetTokenSymbol(row.token0, frame),
     token1 |-> GetTokenSymbol(row.token1, frame)]

\* DataProcessor.process_lp_all. A row holds the columns lp, symbol (None
\* for the empty string), type, token0 and token1 of COLUMNS_LP.
ProcessLpAll(raw_data, frame) ==
    LET df == DropDuplicates(raw_data, "lp")
    IN IF frame = None THEN df
       ELSE [j \in 1..Len(df) |->
                IF df[j].symbol = None
                THEN [df[j] EXCEPT !.symbol = Some(GetClSymbol(df[j], The(frame)))]
                ELSE df[j]]

\* DataProcessor.process_tokens. A row holds token_address, symbol, decimals,
\* account_balance and listed; the result is indexed by token_address and
\* has no account_balance.
ProcessTokens(raw_data, listed_only) ==
    LET df == DropDuplicates(raw_data, "token_address")
        indexed == [j \in 1..Len(df) |->
                       [token_address |-> df[j].token_address, symbol |-> df[j].symbol,
                        decimals |-> df[j].decimals, listed |-> df[j].listed]]
    IN IF listed_only THEN SelectSeq(indexed, LAMBDA row : row.listed) ELSE indexed

\* DataProcessor.process_ve_all. A row holds id, account, governance_amount
\* and votes; amount, voting_amount and rebase_amount are converted as
\* governance_amount is.
ProcessVeAll(raw_data, convert_amounts, process_votes) ==
    LET df == DropDuplicates(raw_data, "id")
        converted == [j \in 1..Len(df) |->
                         [df[j] EXCEPT !.governance_amount =
                             IF convert_amounts THEN FloatFromWei(@) ELSE Dec(@, 1, 0)]]
    IN [j \in 1..Len(converted) |->
           IF process_votes
           THEN [converted[j] EXCEPT !.votes = ProcessVotes(@, converted[j].governance_amount)]
           ELSE converted[j]]

\* DataProcessor.process_relay_all. A row holds venft_id, used_voting_amount,
\* votes and inactive.
ProcessRelayAll(raw_data, convert_amounts, filter_inactive) ==
    LET converted == [j \in 1..Len(raw_data) |->
                         IF convert_amounts
                         THEN [raw_data[j] EXCEPT
                                  !.used_voting_amount = FloatFromWei(@),
                                  !.votes = ProcessRelayVotes(@, FloatFromWei(raw_data[j].used_voting_amount))]
                         ELSE [raw_data[j] EXCEPT !.used_voting_amount = Dec(@, 1, 0)]]
    IN IF filter_inactive THEN SelectSeq(converted, LAMBDA row : ~row.inactive) ELSE converted

\* -- the raw listings of a call
\* Vote lists: none, one vote of the whole total, one above the total (the
\* contract rounds each amount on its own) beside one of nothing.
VoteLists == {<<>>, <<Vote(1, 2)>>, <<Vote(1, 3), Vote(2, 0)>>}

\* The total a vote list is weighed against, in wei.
Totals == {0, 2}

\* Raw listings of at most n rows, the same row or key any number of times.
RawLists(rows, n) == UNION {[1..k -> rows] : k \in 0..n}

LpRows ==
    {[lp |-> lp, symbol |-> symbol, type |-> 100, token0 |-> token0, token1 |-> Checksum(Listed6)] :
        lp \in 1..2, symbol \in {None, Some([cl |-> 0, token0 |-> UnknownSymbol, token1 |-> UnknownSymbol])},
        token0 \in {Checksum(Tok(1)), Tok(2)}}

TokenRows ==
    {[token_address |-> a, symbol |-> symbol, decimals |-> 18, account_balance |-> 0, listed |-> listed] :
        a \in {Tok(1), Tok(2)}, symbol \in {"A", "B"}, listed \in BOOLEAN}

VeRows ==
    {[id |-> id, account |-> account, governance_amount |-> total, votes |-> votes] :
        id \in 1..2, account \in {"a", "b"}, total \in Totals, votes \in VoteLists}

RelayRows ==
    {[venft_id |-> id, used_voting_amount |-> total, votes |-> votes, inactive |-> inactive] :
        id \in 1..2, total \in Totals, votes \in VoteLists, inactive \in BOOLEAN}

NormalizerInit == PriceIdle /\ SweepIdle

\* A call of a process_* method leaves its arguments in call and its frame
\* (the rows in order) in ret.
Processed(op, raw_data, flags, rows) ==
    /\ call' = Some([op |-> op, raw_data |-> raw_data, flags |-> flags])
    /\ ret' = Some(Returned(rows))

CallProcessLpAll ==
    /\ call = None
    /\ \E raw_data \in RawLists(LpRows, 3), frame \in {None, Some(TokensFrame)} :
          Processed("process_lp_all", raw_data, <<frame # None>>, ProcessLpAll(raw_data, frame))
    /\ UNCHANGED <<client, threads, wiring, now, stores, log, resolved_at, vars>>

CallProcessTokens ==
    /\ call = None
    /\ \E raw_data \in RawLists(TokenRows, 3), listed_only \in BOOLEAN :
          Processed("process_tokens", raw_data, <<listed_only>>, ProcessTokens(raw_data, listed_only))
    /\ UNCHANGED <<client, threads, wiring, now, stores, log, resolved_at, vars>>

CallProcessVeAll ==
    /\ call = None
    /\ \E raw_data \in RawLists(VeRows, 3), convert_amounts \in BOOLEAN, process_votes \in BOOLEAN :
          Processed("process_ve_all", raw_data, <<convert_amounts, process_votes>>,
                    ProcessVeAll(raw_data, convert_amounts, process_votes))
    /\ UNCHANGED <<client, threads, wiring, now, stores, log, resolved_at, vars>>

CallProcessRelayAll ==
    /\ call = None
    /\ \E raw_data \in RawLists(RelayRows, 2), convert_amounts \in BOOLEAN, filter_inactive \in BOOLEAN :
          Processed("process_relay_all", raw_data, <<convert_amounts, filter_inactive>>,
                    ProcessRelayAll(raw_data, convert_amounts, filter_inactive))
    /\ UNCHANGED <<client, threads, wiring, now, stores, log, resolved_at, vars>>

NormalizerNext ==
    \/ CallProcessLpAll
    \/ CallProcessTokens
    \/ CallProcessVeAll
    \/ CallProcessRelayAll

NormalizerSpec == NormalizerInit /\ [][NormalizerNext]_<<vars, pvars>>

\* ------------------------------------------------------ from_wei and to_wei
\* Wei amounts are wider than a machine integer: an int is the sequence of
\* its decimal digits, most significant first and without leading zeros
\* (<<>> is 0); a Decimal is a coefficient of that kind and an exponent.
MaxDigits == 30

\* decimal.getcontext().prec: the significant digits a Decimal operation
\* keeps; the module sets no context of its own.
prec == 28

Zeros(k) == [i \in 1..k |-> 0]
Wide(c, e) == [c |-> c, e |-> e]

RECURSIVE StripLeading(_)
StripLeading(ds) ==
    IF ds # <<>> /\ Head(ds) = 0 THEN StripLeading(Tail(ds)) ELSE ds

\* coefficient + 1
RECURSIVE Increment(_)
Increment(ds) ==
    IF ds = <<>> THEN <<1>>
    ELSE IF ds[Len(ds)] < 9 THEN [ds EXCEPT ![Len(ds)] = @ + 1]
    ELSE Increment(SubSeq(ds, 1, Len(ds) - 1)) \o <<0>>

\* The digits dropped by a rounding against half a unit of the last kept
\* digit: "below", "half" or "above".
Against(rest) ==
    IF rest[1] > 5 THEN "above"
    ELSE IF rest[1] < 5 THEN "below"
    ELSE IF \E j \in 2..Len(rest) : rest[j] # 0 THEN "above" ELSE "half"

\* The context's rounding of an exact result: to prec significant digits,
\* ROUND_HALF_EVEN.
Round_Exact(v) == v
Round(v) ==
    IF Len(v.c) <= prec THEN v
    ELSE LET keep == SubSeq(v.c, 1, prec)
             side == Against(SubSeq(v.c, prec + 1, Len(v.c)))
             up == side = "above" \/ (side = "half" /\ keep[prec] % 2 = 1)
         IN Wide(IF up THEN Increment(keep) ELSE keep, v.e + (Len(v.c) - prec))

\* Decimal(value) and Decimal(str(value)) are exact for an int and for a
\* Decimal.
DecimalOfInt(digits) == Wide(digits, 0)

\* int(decimal): truncation
IntOf(v) ==
    IF v.e >= 0 THEN (IF v.c = <<>> THEN <<>> ELSE v.c \o Zeros(v.e))
    ELSE IF 0 - v.e >= Len(v.c) THEN <<>>
    ELSE SubSeq(v.c, 1, Len(v.c) + v.e)

\* from_wei: Decimal(value) / Decimal(10**decimals)
from_wei(value, decimals) == Round(Wide(value, 0 - decimals))

\* to_wei: int(Decimal(str(value)) * Decimal(10**decimals))
to_wei(value, decimals) ==
    IntOf(Round(Wide(IF value.c = <<>> THEN <<>> ELSE value.c \o Zeros(decimals), value.e)))

\* The integers of a call: 0, and the numbers of up to MaxDigits digits made
\* of a leading digit, a run of 0s or of 9s and a last digit.
WideInts ==
    {<<>>} \cup
    {StripLeading(<<b>>) : b \in {1, 5, 9}} \cup
    {<<a>> \o [i \in 1..(n - 2) |-> f] \o <<b>> :
        a \in {1, 5, 9}, f \in {0, 9}, b \in {0, 1, 5, 9}, n \in 2..MaxDigits}

\* The decimals of the deployed tokens: 0, 6 (USDC), 8 (cbBTC), 18.
TokenDecimals == {0, 6, 8, 18}

WeiInit == PriceIdle /\ SweepIdle

\* to_wei of an integer, or of what from_wei just returned for it.
CallToWei ==
    \/ /\ call = None
       /\ \E x \in WideInts, d \in TokenDecimals :
             /\ call' = Some([op |-> "wei", x |-> x, d |-> d, calls |-> <<"to_wei">>])
             /\ ret' = Some(Returned(DecimalOfInt(to_wei(DecimalOfInt(x), d))))
       /\ UNCHANGED <<client, threads, wiring, now, stores, log, resolved_at, vars>>
    \/ /\ call # None
       /\ The(call).op = "wei"
       /\ The(call).calls = <<"from_wei">>
       /\ call' = Some([The(call) EXCEPT !.calls = <<"from_wei", "to_wei">>])
       /\ ret' = Some(Returned(DecimalOfInt(to_wei(The(ret).val, The(call).d))))
       /\ UNCHANGED <<client, threads, wiring, now, stores, log, resolved_at, vars>>

\* from_wei of an integer, or of what to_wei just returned for it.
CallFromWei ==
    \/ /\ call = None
       /\ \E x \in WideInts, d \in TokenDecimals :
             /\ call' = Some([op |-> "wei", x |-> x, d |-> d, calls |-> <<"from_wei">>])
             /\ ret' = Some(Returned(from_wei(x, d)))
       /\ UNCHANGED <<client, threads, wiring, now, stores, log, resolved_at, vars>>
    \/ /\ call # None
       /\ The(call).op = "wei"
       /\ The(call).calls = <<"to_wei">>
       /\ call' = Some([The(call) EXCEPT !.calls = <<"to_wei", "from_wei">>])
       /\ ret' = Some(Returned(from_wei(IntOf(The(ret).val), The(call).d)))
       /\ UNCHANGED <<client, threads, wiring, now, stores, log, resolved_at, vars>>

WeiNext ==
    \/ CallToWei
    \/ CallFromWei

WeiSpec == WeiInit /\ [][WeiNext]_<<vars, pvars>>

\* ------------------------------------ get_price_usd, two callers at once
\* PriceProvider takes no lock. Two threads run get_price_usd on one
\* provider for one token; a step is one access to self._cache, one call of
\* time.time() or one call into a source, and the steps of the two callers
\* interleave in any order.
Callers == {"first", "second"}

\* The address a caller passes: the same token, in lower case and in
\* checksum case.
AddressOf(c) == IF c = "first" THEN Tok(1) ELSE Checksum(Tok(1))

\* A caller outside get_price_usd, and one entering it.
Frame(at, raise_on_failure) ==
    [pc |-> at, raise_on_failure |-> raise_on_failure, cached |-> None, i |-> 1,
     price |-> None, source |-> "none", result |-> None, sources_tried |-> <<>>,
     checked_at |-> None, served |-> "nothing", ret |-> None]
Outside == Frame("outside", FALSE)

\* The clock of two callers stops a second after two cache lifetimes.
MaxElapsed == 2 * Seconds(cache_ttl) + TicksPerSecond

\* The providers two callers share: one source, or two with one left out
\* between them.
SharedProviders == {{"coingecko"}, {"oracle", "defillama"}}

ConcurrentInit ==
    /\ configured \in SharedProviders
    /\ connectors = <<>>
    /\ tokens_df = None
    /\ now \in 0..(TicksPerSecond - 1)
    /\ cache = EmptyDict
    /\ eth_price_cache = EmptyDict
    /\ eth_usd_rate = None
    /\ eth_usd_timestamp = 0
    /\ call = None
    /\ log = <<>>
    /\ ret = None
    /\ resolved_at = EmptyDict
    /\ threads = [c \in Callers |-> Outside]
    /\ client = None
    /\ SweepIdle

\* A step of caller c that leaves the cache alone.
Steps(c, frame) ==
    /\ threads' = [threads EXCEPT ![c] = frame]
    /\ UNCHANGED <<client, wiring, now, stores, trace, vars>>

\* def get_price_usd(self, token_address, raise_on_failure=False)
Enter(c) ==
    /\ threads[c].pc \in {"outside", "returned"}
    /\ \E raise_on_failure \in BOOLEAN : Steps(c, Frame("check", raise_on_failure))

\* if cache_key in self._cache:
CheckCache(c) ==
    /\ threads[c].pc = "check"
    /\ Steps(c, [threads[c] EXCEPT
                    !.pc = IF Has(cache, Lower(AddressOf(c))) THEN "read" ELSE "sources"])

\* cached = self._cache[cache_key]
ReadCache(c) ==
    /\ threads[c].pc = "read"
    /\ Steps(c, [threads[c] EXCEPT !.pc = "age", !.cached = Some(cache[Lower(AddressOf(c))])])

\* if time.time() - cached.timestamp < self._cache_ttl
ServeCached_WhileResolving(c) ==
    \/ Fresh(The(threads[c].cached), now)
    \/ \E other \in Callers \ {c} : threads[other].pc \in {"sources", "make", "write"}
ServeCached(c) == Fresh(The(threads[c].cached), now)

\* ... : return cached
CheckAge(c) ==
    /\ threads[c].pc = "age"
    /\ Steps(c, IF ServeCached(c)
                THEN [threads[c] EXCEPT !.pc = "returned", !.checked_at = Some(now),
                                        !.served = "cached",
                                        !.ret = Some(Returned(threads[c].cached))]
                ELSE [threads[c] EXCEPT !.pc = "sources", !.checked_at = Some(now)])

\* The configured sources get_price_usd has still to try, in its order.
SourcesLeft(c) ==
    {j \in threads[c].i..Len(SourceOrder) : SourceOrder[j] \in configured}

\* if self._<source>: sources_tried.append(...); price = source.get_price_usd(...)
AskSource(c) ==
    /\ threads[c].pc = "sources"
    /\ SourcesLeft(c) # {}
    /\ LET j == CHOOSE j \in SourcesLeft(c) : \A k \in SourcesLeft(c) : j <= k
       IN \E price \in {None, Some(SourcePrice(SourceOrder[j]))} :
             Steps(c, [threads[c] EXCEPT
                          !.sources_tried = Append(@, SourceOrder[j]),
                          !.i = j + 1,
                          !.price = price,
                          !.source = SourceOrder[j],
                          !.pc = IF price # None THEN "make" ELSE "sources"])

\* result = PriceResult(price=price, source=..., timestamp=int(time.time()))
MakeResult(c) ==
    /\ threads[c].pc = "make"
    /\ Steps(c, [threads[c] EXCEPT
                    !.pc = "write",
                    !.result = Some(PriceResult(The(threads[c].price), threads[c].source,
                                                IntTime(now)))])

\* self._cache[cache_key] = result; return result
WriteCache(c) ==
    /\ threads[c].pc = "write"
    /\ cache' = Put(cache, Lower(AddressOf(c)), The(threads[c].result))
    /\ threads' = [threads EXCEPT ![c] = [@ EXCEPT !.pc = "returned", !.served = "fresh",
                                                  !.ret = Some(Returned(threads[c].result))]]
    /\ UNCHANGED <<client, wiring, now, eth_price_cache, eth_usd_rate, eth_usd_timestamp, trace, vars>>

\* if raise_on_failure: raise PriceNotAvailableError(...); return None
GiveUp(c) ==
    /\ threads[c].pc = "sources"
    /\ SourcesLeft(c) = {}
    /\ Steps(c, [threads[c] EXCEPT
                    !.pc = "returned",
                    !.served = IF threads[c].raise_on_failure THEN "raised" ELSE "none",
                    !.ret = Some(IF threads[c].raise_on_failure
                                 THEN Raised(PriceNotAvailableError(AddressOf(c),
                                                                    threads[c].sources_tried))
                                 ELSE Returned(None))])

\* Time passes between two steps: just under one cache lifetime, or a whole
\* one.
Elapse ==
    \E d \in {Seconds(cache_ttl) - 1, Seconds(cache_ttl)} :
        /\ now + d <= MaxElapsed
        /\ now' = now + d
        /\ UNCHANGED <<client, threads, wiring, stores, trace, vars>>

ConcurrentNext ==
    \/ \E c \in Callers : Enter(c)
    \/ \E c \in Callers : CheckCache(c)
    \/ \E c \in Callers : ReadCache(c)
    \/ \E c \in Callers : CheckAge(c)
    \/ \E c \in Callers : AskSource(c)
    \/ \E c \in Callers : MakeResult(c)
    \/ \E c \in Callers : WriteCache(c)
    \/ \E c \in Callers : GiveUp(c)
    \/ Elapse

ConcurrentSpec == ConcurrentInit /\ [][ConcurrentNext]_<<vars, pvars>>

\* ---------------------------------------------------------------- ttl_cache
\* sugar.utils.cache.ttl_cache: one decorated function and the calls made
\* of it. The dict of the decorator is kept in cache, the calls in log.
MaxCalls == 3        \* calls of the decorated function in one run
ttl_seconds == 300   \* ttl_cache(ttl_seconds=300)

\* A keyword argument; names are numbered in their sorting order.
Kw(name, value) == <<name, value>>

\* The arguments of a call: positional ones, and keyword ones in the order
\* the caller wrote them.
Arguments ==
    {[args |-> <<5>>, kwargs |-> <<>>],
     [args |-> <<>>, kwargs |-> <<Kw(1, 5), Kw(2, 7)>>],
     [args |-> <<>>, kwargs |-> <<Kw(2, 7), Kw(1, 5)>>]}

\* sorted(kwargs.items())
Sorted(items) ==
    LET names == {items[j][1] : j \in 1..Len(items)}
        RECURSIVE Ordered(_)
        Ordered(left) ==
            IF left = {} THEN <<>>
            ELSE LET least == CHOOSE n \in left : \A m \in left : n <= m
                     item == items[CHOOSE j \in 1..Len(items) : items[j][1] = least]
                 IN <<item>> \o Ordered(left \ {least})
    IN Ordered(names)

\* key = (args, tuple(sorted(kwargs.items())))
CacheKey_AsWritten(a) == <<a.args, a.kwargs>>
CacheKey(a) == <<a.args, Sorted(a.kwargs)>>

\* What the body returns: None or a value, not the same every time.
Results == {None, Some(1)}

\* "if key in cache: ... if time.time() - cached_time < ttl_seconds"
TtlHit_UnlessNone(entries, key, t) ==
    /\ Has(entries, key)
    /\ entries[key].cached_value # None
    /\ t - entries[key].cached_time < Seconds(ttl_seconds)
TtlHit(entries, key, t) ==
    /\ Has(entries, key)
    /\ t - entries[key].cached_time < Seconds(ttl_seconds)

\* wrapper(*args, **kwargs) at time t, the body returning result after d
\* ticks.
Wrapper(entries, a, t, result, d) ==
    IF TtlHit(entries, CacheKey(a), t)
    THEN [cache |-> entries, ret |-> entries[CacheKey(a)].cached_value, executed |-> FALSE,
          now |-> t]
    ELSE [cache |-> Put(entries, CacheKey(a), [cached_time |-> t + d, cached_value |-> result]),
          ret |-> result, executed |-> TRUE, now |-> t + d]

\* The clock stops a second after two lifetimes of an entry.
MaxTtlNow == 2 * Seconds(ttl_seconds) + TicksPerSecond

TtlInit == PriceIdle /\ SweepIdle

CallWrapper ==
    /\ Len(log) < MaxCalls
    /\ \E a \in Arguments, result \in Results, d \in {0, 1} :
          LET r == Wrapper(cache, a, now, result, d)
          IN /\ r.now <= MaxTtlNow
             /\ cache' = r.cache
             /\ now' = r.now
             /\ call' = Some([op |-> "ttl_cache", arguments |-> a, time |-> now])
             /\ ret' = Some(Returned(r.ret))
             /\ log' = Append(log, [arguments |-> a, made |-> now, executed |-> r.executed,
                                    value |-> r.ret, stored |-> r.now])
    /\ UNCHANGED <<client, threads, wiring, eth_price_cache, eth_usd_rate, eth_usd_timestamp, resolved_at, vars>>

\* Time passes between two calls: just under one lifetime of an entry, or a
\* whole one.
TtlWait ==
    \E d \in {Seconds(ttl_seconds) - 1, Seconds(ttl_seconds)} :
        /\ Len(log) < MaxCalls
        /\ now + d <= MaxTtlNow
        /\ now' = now + d
        /\ UNCHANGED <<client, threads, wiring, stores, trace, vars>>

TtlNext ==
    \/ CallWrapper
    \/ TtlWait

TtlSpec == TtlInit /\ [][TtlNext]_<<vars, pvars>>

\* ------------------------------------------------------- claims C21 - C30
\* The cache of the index source as the latest call found it, and whether
\* that call could be served from it.
SourceCacheBefore == The(call).before.cache
SourceHit ==
    /\ Has(SourceCacheBefore, Key)
    /\ The(call).time - SourceCacheBefore[Key].timestamp < Seconds(60)

\* The service gave no usable answer: a transport error, a non-2xx status, an
\* unparseable payload, or a payload with no entry or no price for the token.
NoAnswer == The(call).before.http \in {"timeout", "status", "garbage", "empty", "nofield"}

\* C21: a get_price_usd of CoinGeckoPriceSource or DefiLlamaPriceSource that
\* misses the source cache sends exactly one HTTP request; when that request
\* brings a transport error, a non-2xx status or an unparseable or missing
\* payload, the call returns None, does not raise, and leaves the source cache
\* as it was.
C21_IndexNeverRaises ==
    (Got /\ ~SourceHit) =>
        /\ Len(log) = 1
        /\ log[1].ev = "http"
        /\ The(ret).exc = None
        /\ NoAnswer => The(ret).val = None /\ cache = SourceCacheBefore

\* A call found an entry of exactly 60 s in the cache, asked the service, was
\* refused (non-2xx), returned None and left the expired entry in place.
C21_Witness ==
    /\ Got
    /\ Has(SourceCacheBefore, Key)
    /\ The(call).time - SourceCacheBefore[Key].timestamp = Seconds(60)
    /\ The(call).before.http = "status"
    /\ Len(log) = 1
    /\ The(ret).val = None
    /\ cache = SourceCacheBefore

\* A rate query of the latest call raised.
QueryRaised == \E j \in 1..Len(log) : log[j].ev = "rates" /\ log[j].rates = None

\* C22: when a rate query that OraclePriceSource.get_price_usd sends to the
\* contract raises, the call returns None and does not raise, for every token
\* that is no known stable asset (the reference asset included).
C22_OracleFaultAbsent ==
    (Got /\ ~StableAsset(Token) /\ QueryRaised) =>
        The(ret).val = None /\ The(ret).exc = None

\* The latest call was combine_lp_with_rewards; its arguments and its rows.
Combined == call # None /\ The(call).op = "combine_lp_with_rewards"
Args == The(call)
ResultRows == The(ret).val

\* The call priced its rows: the processor has a provider and was given a
\* tokens frame.
PricedCall == Combined /\ Args.provider /\ Args.tokens_df # None

\* The token has a resolvable price, and that price.
Resolvable(token) == Args.quotes[Lower(token)] # None
PriceOf(token) == The(Args.quotes[Lower(token)])

\* The sum of amount x price over a list of reward entries, all of them priced.
RECURSIVE SumAtPrice(_)
SumAtPrice(rewards) ==
    IF rewards = <<>> THEN 0
    ELSE Head(rewards).amount.n * PriceOf(Head(rewards).token).n + SumAtPrice(Tail(rewards))

\* The USD column of a reward list is the sum over its priced entries alone.
RewardsColumnRight(rewards, usd) ==
    LET given == IF rewards = None THEN <<>> ELSE The(rewards)
    IN usd = Dec(SumAtPrice(SelectSeq(given, LAMBDA rw : Resolvable(rw.token))), 1, 0)

\* The USD column of a pool quantity is 0 for an unpriced token or a zero
\* quantity, and the scaled amount x price otherwise.
QuantityColumnRight(amount_wei, token, usd) ==
    IF ~Resolvable(token) \/ amount_wei = 0 THEN usd = Zero
    ELSE usd = DecMul(Scaled(amount_wei, ProcessorTokenDecimals(token, The(Args.tokens_df))),
                      PriceOf(token))

ResultPools == [j \in 1..Len(ResultRows) |-> ResultRows[j].pool]
RewardIds == {Args.epochs_df[j].lp : j \in 1..Len(Args.epochs_df)}

Deduped == {"process_lp_all", "process_tokens", "process_ve_all"}
Normalised(op) == call # None /\ The(call).op = op /\ ret # None /\ The(ret).exc = None

\* The natural key of a raw record and what tells a record from another one
\* with its key: the columns the normaliser does not rewrite.
KeyOf(op, row) ==
    IF op = "process_lp_all" THEN Some(row.lp)
    ELSE IF op = "process_tokens" THEN Some(row.token_address)
    ELSE Some(row.id)
Identity(op, row) ==
    IF op = "process_lp_all" THEN <<row.lp, row.type, row.token0, row.token1>>
    ELSE IF op = "process_tokens" THEN <<row.token_address, row.symbol, row.decimals, row.listed>>
    ELSE <<row.id, row.account>>

\* The records of a listing that are the first of their key, in input order.
RECURSIVE FirstFrom(_, _, _, _)
FirstFrom(op, rows, i, seen) ==
    IF i > Len(rows) THEN <<>>
    ELSE IF KeyOf(op, rows[i]) \in seen THEN FirstFrom(op, rows, i + 1, seen)
    ELSE <<rows[i]>> \o FirstFrom(op, rows, i + 1, seen \cup {KeyOf(op, rows[i])})
FirstRecords(op, rows) == FirstFrom(op, rows, 1, {})

Identities(op, rows) == [j \in 1..Len(rows) |-> Identity(op, rows[j])]

KeepsFirstRecords(op) ==
    Normalised(op) =>
        Identities(op, The(ret).val) = Identities(op, FirstRecords(op, The(call).raw_data))

\* The records process_tokens is left with when it is asked for listed
\* tokens only.
ListedOnly(rows) == SelectSeq(rows, LAMBDA row : row.listed)
TokensKept ==
    IF The(call).flags[1] THEN ListedOnly(FirstRecords("process_tokens", The(call).raw_data))
    ELSE FirstRecords("process_tokens", The(call).raw_data)

\* C25 as stated: process_lp_all, process_tokens and process_ve_all return,
\* for each key (lp, token_address, id), exactly the first record of the input
\* with that key, the kept records in their input order.
C25_KeepsFirst == \A op \in Deduped : KeepsFirstRecords(op)

\* C25, amended: process_lp_all and process_ve_all return exactly the first
\* record of each key in input order; process_tokens does so too, and when it
\* is asked for listed tokens only it then drops the first records that are
\* not listed (a later, listed record of such a key is not kept either).
C25_KeepsFirstThenListed ==
    /\ KeepsFirstRecords("process_lp_all")
    /\ KeepsFirstRecords("process_ve_all")
    /\ Normalised("process_tokens") =>
           Identities("process_tokens", The(ret).val) = Identities("process_tokens", TokensKept)

\* A listing of listed tokens whose third record repeats the key of the first
\* with other contents: two records are kept, the first and the second.
C25_Witness ==
    /\ Normalised("process_tokens")
    /\ The(call).flags[1]
    /\ Len(The(call).raw_data) = 3
    /\ \A j \in 1..3 : The(call).raw_data[j].listed
    /\ The(call).raw_data[1].token_address = The(call).raw_data[3].token_address
    /\ The(call).raw_data[1].token_address # The(call).raw_data[2].token_address
    /\ The(call).raw_data[1].symbol # The(call).raw_data[3].symbol
    /\ Len(The(ret).val) = 2

\* -- C26, C27
\* A finished call that derived vote weights, the rows it returned, and the
\* total each row's votes were weighed against.
WeighedVe == Normalised("process_ve_all") /\ The(call).flags[2]
WeighedRelay == Normalised("process_relay_all") /\ The(call).flags[1]
Weighed == WeighedVe \/ WeighedRelay
WeighedRows == The(ret).val
TotalOf(row) == IF WeighedVe THEN row.governance_amount ELSE row.used_voting_amount

\* 0 <= w <= 1
InUnit(w) == w.d > 0 /\ w.n >= 0 /\ AtMostOne(w)

\* C26: for a total above 0, every weight derived from veNFT votes or from
\* relay votes lies in [0, 1], also when a raw amount is above the total.
C26_WeightClamp ==
    Weighed =>
        \A j \in 1..Len(WeighedRows) :
            TotalOf(WeighedRows[j]).n > 0 =>
                \A k \in 1..Len(WeighedRows[j].votes) : InUnit(WeighedRows[j].votes[k].weight)

\* No weight was made by a division by zero.
NoZeroDivision ==
    \A j \in 1..Len(WeighedRows) :
        \A k \in 1..Len(WeighedRows[j].votes) : WeighedRows[j].votes[k].weight.d # 0

\* C27: when the total of a row is 0 the weights derived for it are the empty
\* list whatever its votes are, and no division by zero takes place, for
\* veNFT votes and relay votes alike.
C27_ZeroTotalNoWeights ==
    Weighed =>
        /\ NoZeroDivision
        /\ \A j \in 1..Len(WeighedRows) :
               TotalOf(WeighedRows[j]).n = 0 => WeighedRows[j].votes = <<>>

\* A relay whose raw record has votes and a total of 0 comes back with no
\* weights.
C27_Witness ==
    /\ WeighedRelay
    /\ Len(The(call).raw_data) = 1
    /\ The(call).raw_data[1].used_voting_amount = 0
    /\ The(call).raw_data[1].votes # <<>>
    /\ Len(WeighedRows) = 1
    /\ WeighedRows[1].votes = <<>>

\* -- C28
\* A finished round trip of an integer, which one, and the integer.
RoundTrip(calls) == call # None /\ The(call).op = "wei" /\ The(call).calls = calls
RoundTripped == RoundTrip(<<"to_wei", "from_wei">>) \/ RoundTrip(<<"from_wei", "to_wei">>)

\* A Decimal (or int) equals the integer: Python compares the numbers.
RECURSIVE StripTrailing(_)
StripTrailing(v) ==
    IF v.c = <<>> THEN Wide(<<>>, 0)
    ELSE IF v.c[Len(v.c)] = 0 THEN StripTrailing(Wide(SubSeq(v.c, 1, Len(v.c) - 1), v.e + 1))
    ELSE v
EqualsInt(v, x) == StripTrailing(v) = StripTrailing(Wide(x, 0))

\* The significant digits of an integer: its digits up to the last one that
\* is not 0.
SignificantDigits(x) == Len(StripTrailing(Wide(x, 0)).c)

Back(c) == threads # EmptyDict /\ threads[c].pc = "returned"
Handed(c) == The(The(threads[c].ret).val)

\* A cached entry a caller was handed was younger than the TTL when the
\* caller looked at the clock to serve it.
ServedYoung(c) ==
    threads[c].served = "cached" =>
        The(threads[c].checked_at) - Seconds(Handed(c).timestamp) < Seconds(cache_ttl)

\* A fresh result a caller was handed is the answer to the caller's own last
\* query, stamped no later than now.
ServedOwnAnswer(c) ==
    threads[c].served = "fresh" =>
        /\ threads[c].sources_tried # <<>>
        /\ Handed(c).source = threads[c].sources_tried[Len(threads[c].sources_tried)]
        /\ Handed(c).price = SourcePrice(Handed(c).source)
        /\ Seconds(Handed(c).timestamp) <= now

\* A caller that was handed nothing had asked every configured source.
ServedNothingAfterAll(c) ==
    threads[c].served \in {"none", "raised"} => threads[c].sources_tried = SourcesTried

\* One call asks each configured source at most once, in the order of a call
\* that runs alone.
QueriesOfOneCall(c) ==
    /\ Len(threads[c].sources_tried) <= Len(SourcesTried)
    /\ threads[c].sources_tried = SubSeq(SourcesTried, 1, Len(threads[c].sources_tried))

\* No entry of the cache is stamped later than now: each expires a TTL after
\* it was resolved at the latest, whichever write came last.
ExpiresInTime == \A key \in DOMAIN cache : Seconds(cache[key].timestamp) <= now

\* C29: two callers run get_price_usd for one token with their steps
\* interleaved in any order. Each is handed a fresh result of its own query,
\* a cached entry younger than the TTL, or nothing once every source was
\* asked; a call asks no source twice, so the cost of the race is queries a
\* call running alone would have been spared; and no entry is served past
\* its TTL or outlives it in the cache.
C29_ConcurrentResolution ==
    threads # EmptyDict =>
        /\ ExpiresInTime
        /\ \A c \in Callers :
              /\ QueriesOfOneCall(c)
              /\ Back(c) => ServedYoung(c) /\ ServedOwnAnswer(c) /\ ServedNothingAfterAll(c)

\* A lost update: both callers resolved the token; the one that resolved it
\* earlier wrote last, so the cache holds the older of the two results.
C29_Witness ==
    \E c \in Callers, other \in Callers :
        /\ c # other
        /\ Back(c) /\ threads[c].served = "fresh"
        /\ Back(other) /\ threads[other].served = "fresh"
        /\ cache[Lower(AddressOf(c))] = Handed(c)
        /\ Handed(other).timestamp > Handed(c).timestamp

\* -- C30
\* Two calls have equal positional and keyword arguments: the keyword ones
\* are the same names with the same values, in whatever order.
KwItems(a) == {a.kwargs[j] : j \in 1..Len(a.kwargs)}
EqualArguments(a, b) == a.args = b.args /\ KwItems(a) = KwItems(b)

\* The calls of the decorated function so far, and the pairs of an earlier
\* and a later call with equal arguments.
WrappedCalls == IF call # None /\ The(call).op = "ttl_cache" THEN 1..Len(log) ELSE {}
EqualPairs ==
    {p \in WrappedCalls \X WrappedCalls :
        p[1] < p[2] /\ EqualArguments(log[p[1]].arguments, log[p[2]].arguments)}

\* The latest call before the j-th that ran the body for equal arguments.
Stored(j) ==
    {i \in 1..(j - 1) :
        /\ log[i].executed
        /\ EqualArguments(log[i].arguments, log[j].arguments)
        /\ \A k \in (i + 1)..(j - 1) :
              ~(log[k].executed /\ EqualArguments(log[k].arguments, log[j].arguments))}

\* C30 as stated: of two calls with equal arguments made less than ttl apart
\* the later does not run the body and returns what the earlier returned,
\* None included; a call made ttl or more after the one before it with equal
\* arguments runs the body again; a call that does not run the body returns
\* what a call with equal arguments returned.
C30_TtlBetweenCalls ==
    /\ \A p \in EqualPairs :
          log[p[2]].made - log[p[1]].made < Seconds(ttl_seconds) =>
              ~log[p[2]].executed /\ log[p[2]].value = log[p[1]].value
    /\ \A p \in EqualPairs :
          (/\ log[p[2]].made - log[p[1]].made >= Seconds(ttl_seconds)
           /\ \A k \in (p[1] + 1)..(p[2] - 1) :
                 ~EqualArguments(log[k].arguments, log[p[2]].arguments))
              => log[p[2]].executed
    /\ \A j \in WrappedCalls :
          ~log[j].executed =>
              \E i \in 1..(j - 1) :
                  EqualArguments(log[i].arguments, log[j].arguments) /\ log[i].value = log[j].value

\* C30, amended: the ttl of a value runs from the moment the body's result
\* was stored. A call made less than ttl after the latest run of the body
\* for equal arguments stored its result does not run the body and returns
\* that result, None included; a call made ttl or more after it, or with
\* arguments the body never ran for, runs the body.
C30_TtlSinceStored ==
    \A j \in WrappedCalls :
        /\ Stored(j) = {} => log[j].executed
        /\ \A i \in Stored(j) :
              IF log[j].made - log[i].stored < Seconds(ttl_seconds)
              THEN ~log[j].executed /\ log[j].value = log[i].value
              ELSE log[j].executed

\* The body ran once and returned None; a later call, its keyword arguments
\* written in the other order, came within the ttl and was handed None
\* without a second run.
C30_Witness ==
    /\ WrappedCalls = 1..2
    /\ log[1].executed /\ log[1].value = None
    /\ log[1].arguments.kwargs # <<>>
    /\ log[2].arguments.kwargs # log[1].arguments.kwargs
    /\ log[2].made > log[1].stored
    /\ ~log[2].executed /\ log[2].value = None

\* ============================================================ SugarClient
\* sugar.core.client: one SugarClient and the calls made of its data
\* methods. The chain may list other tokens every time it is swept.

\* A token record of the listing: (token_address, symbol, decimals,
\* account_balance, listed).
TokenRecord(a, symbol, decimals, listed) ==
    [token_address |-> a, symbol |-> symbol, decimals |-> decimals, account_balance |-> 0,
     listed |-> listed]

\* What LpSugar.tokens_paginated returns for a sweep: nothing, one listed
\* token, an unlisted and a listed one, or a listing whose third record
\* repeats the first token.
SweptListings ==
    {<<>>,
     <<TokenRecord(Tok(1), "A", 18, TRUE)>>,
     <<TokenRecord(Tok(1), "A", 18, FALSE), TokenRecord(Tok(2), "B", 18, TRUE)>>,
     <<TokenRecord(Tok(1), "A", 18, TRUE), TokenRecord(Tok(2), "B", 18, FALSE),
       TokenRecord(Tok(1), "B", 18, FALSE)>>}

\* SugarClient.__init__: self._tokens_df = None
NewClient == [tokens_df |-> None]

\* self._tokens_df = self.processor.process_tokens(raw_data, listed_only=False)
CachedListing_AsAsked(raw_data, listed_only) == ProcessTokens(raw_data, listed_only)
CachedListing(raw_data, listed_only) == ProcessTokens(raw_data, FALSE)

\* if self._tokens_df is None or refresh
MustSweep_WhenEmpty(C, refresh) == C.tokens_df = None \/ The(C.tokens_df) = <<>> \/ refresh
MustSweep(C, refresh) == C.tokens_df = None \/ refresh

\* SugarClient.get_tokens on client C when a sweep would return raw_data
GetTokens(C, listed_only, refresh, raw_data) ==
    LET swept == MustSweep(C, refresh)
        after == IF swept
                 THEN [C EXCEPT !.tokens_df = Some(CachedListing(raw_data, listed_only))]
                 ELSE C
        df == The(after.tokens_df)
    IN [C |-> after,
        swept |-> swept,
        ret |-> IF listed_only THEN SelectSeq(df, LAMBDA row : row.listed) ELSE df]

ClientInit ==
    /\ configured = {}
    /\ connectors = <<>>
    /\ tokens_df = None
    /\ now = 0
    /\ cache = EmptyDict
    /\ eth_price_cache = EmptyDict
    /\ eth_usd_rate = None
    /\ eth_usd_timestamp = 0
    /\ call = None
    /\ log = <<>>
    /\ ret = None
    /\ resolved_at = EmptyDict
    /\ threads = EmptyDict
    /\ client = Some(NewClient)
    /\ SweepIdle

CallGetTokens ==
    /\ Len(log) < MaxCalls
    /\ \E listed_only \in BOOLEAN, refresh \in BOOLEAN, raw_data \in SweptListings :
          LET r == GetTokens(The(client), listed_only, refresh, raw_data)
          IN /\ client' = Some(r.C)
             /\ call' = Some([op |-> "get_tokens", listed_only |-> listed_only,
                              refresh |-> refresh])
             /\ ret' = Some(Returned(r.ret))
             /\ log' = Append(log, [listed_only |-> listed_only, refresh |-> refresh,
                                    swept |-> IF r.swept THEN Some(raw_data) ELSE None,
                                    before |-> The(client).tokens_df,
                                    after |-> r.C.tokens_df,
                                    value |-> r.ret])
    /\ UNCHANGED <<threads, wiring, now, stores, resolved_at, vars>>

ClientNext == CallGetTokens

ClientSpec == ClientInit /\ [][ClientNext]_<<vars, pvars>>

\* ================================================== LpSugar.tokens_paginated
\* sugar.contracts.lp_sugar: one call of tokens_paginated is one behaviour.
\* data holds the call's arguments and how the contract answers: the
\* connectors, the limit argument, what MAX_TOKENS answers, and the answer to
\* the k-th page query (a page of records, or an exception).
MaxPages == 3        \* page queries the contract answers with records

FallbackLimit == 2000   \* limit = 2000  # Fallback default

\* The page the contract returns to the k-th query: n records.
TokenPage(k, n) == [i \in 1..n |-> <<k, i>>]

\* How a page query ends: an exception, or a page.
Failure == [raised |-> TRUE, page |-> <<>>]
Page(result) == [raised |-> FALSE, page |-> result]

PageAnswers(k) == {Failure} \cup {Page(TokenPage(k, n)) : n \in 0..MaxN}

ConnectorLists == {<<>>, <<USDC>>, <<USDC, DAI>>}

\* if limit is None: try: limit = self.max_tokens() except Exception: limit = 2000
TokensLimit(limit_arg, max_tokens) ==
    IF limit_arg # None THEN The(limit_arg)
    ELSE IF max_tokens = None THEN FallbackLimit ELSE The(max_tokens)

\* self.tokens(limit, offset, account, connectors)
Tokens(d, lim, off) ==
    LET k == (off \div lim) + 1
    IN IF k > Len(d.answers) THEN Page(<<>>) ELSE d.answers[k]

\* if not result or len(result) <= len(connectors): break
OnlyConnectors_Fewer(result, conns) == result = <<>> \/ Len(result) < Len(conns)
OnlyConnectors(result, conns) == result = <<>> \/ Len(result) <= Len(conns)

TokenSweepInit ==
    /\ fn = "tokens_paginated"
    /\ data \in [connectors : ConnectorLists,
                 limit : {None} \cup {Some(l) : l \in 1..MaxLimit},
                 max_tokens : {None, Some(MaxLimit)},
                 answers : {a \in [1..MaxPages -> UNION {PageAnswers(k) : k \in 1..MaxPages}] :
                               \A k \in 1..MaxPages : a[k] \in PageAnswers(k)}]
    /\ data.limit # None => data.max_tokens = Some(MaxLimit)
    /\ scan = MaxId
    /\ limit = TokensLimit(data.limit, data.max_tokens)
    /\ max_retries = DefaultMaxRetries
    /\ reduce_limit_on_error = TRUE
    /\ max_items = None
    /\ offset = 0
    /\ current_limit = limit
    /\ retries = 0
    /\ pc = "loop"
    /\ err = None
    /\ pages = <<>>
    /\ results = <<>>
    /\ lastReq = None
    /\ lastOut = "none"
    /\ lastBatch = <<>>
    /\ failRun = 0
    /\ failStreak = 0
    /\ PriceIdle

\* The page has more records than there are connectors: keep it, go on.
TokensPaginated_Page ==
    /\ Running({"tokens_paginated"})
    /\ ~Tokens(data, limit, offset).raised
    /\ LET result == Tokens(data, limit, offset).page IN
       /\ ~OnlyConnectors(result, data.connectors)
       /\ pages' = Append(pages, result)
       /\ results' = Extended(result)
       /\ offset' = AdvanceByLimit(offset)
       /\ Remember("page", result)
       /\ UNCHANGED pvars
    /\ UNCHANGED <<params, current_limit, retries, pc, err>>

\* The page is empty or holds no more than the connectors: break.
TokensPaginated_Stop ==
    /\ Running({"tokens_paginated"})
    /\ ~Tokens(data, limit, offset).raised
    /\ LET result == Tokens(data, limit, offset).page IN
       /\ OnlyConnectors(result, data.connectors)
       /\ pc' = "done"
       /\ Remember("stop", result)
       /\ UNCHANGED pvars
    /\ UNCHANGED <<params, offset, current_limit, retries, err, output>>

\* except Exception: log a warning and break; all_results is returned.
TokensPaginated_Except ==
    /\ Running({"tokens_paginated"})
    /\ Tokens(data, limit, offset).raised
    /\ pc' = "done"
    /\ Remember("fetch_error", <<>>)
    /\ UNCHANGED pvars
    /\ UNCHANGED <<params, offset, current_limit, retries, err, output>>

TokenSweepNext ==
    \/ TokensPaginated_Page
    \/ TokensPaginated_Stop
    \/ TokensPaginated_Except

TokenSweepSpec == TokenSweepInit /\ [][TokenSweepNext]_<<vars, pvars>>

\* ======================================= RewardsSugar.epochs_latest_paginated
\* sugar.contracts.rewards_sugar: one call of epochs_latest_paginated is one
\* behaviour. data holds the argument max_offset and the contract: the page
\* queries (counted from 1) it answers with records, and the query at which
\* it raises (0: never). retries holds the local empty_count.
MaxEmpty == 10        \* if empty_count > 10: break
HardLimit == 50000    \* if offset > 50000: break  # Hard limit

empty_count == retries

\* The page queries that may find records: the first ones, and two beyond a
\* gap of more than MaxEmpty empty pages.
PageSlots == (1..MaxPages) \cup {MaxEmpty + 2, MaxEmpty + 3}

\* The limits a sweep is started with: small ones, and one of which three
\* pages pass the hard limit.
EpochLimits == (1..MaxLimit) \cup {HardLimit \div 2}

\* max_offset: not given, zero pools, or a pool count.
MaxOffsets ==
    {None} \cup {Some(m) : m \in {0, MaxPages, MaxEmpty + 3, 2 * HardLimit}}

\* self.epochs_latest(limit, offset)
EpochsLatest(d, lim, off) ==
    LET k == (off \div lim) + 1
    IN IF k = d.fault THEN Failure
       ELSE IF k \in d.nonempty THEN Page(TokenPage(k, 1)) ELSE Page(<<>>)

\* if max_offset and offset >= max_offset: break
ReachedMaxOffset_Always(max_offset, off) == max_offset # None /\ off >= The(max_offset)
ReachedMaxOffset(max_offset, off) ==
    max_offset # None /\ The(max_offset) # 0 /\ off >= The(max_offset)

\* if offset > 50000: break
PastHardLimit(off) == off > HardLimit

\* if empty_count > 10: break
TooManyEmpty(count) == count > MaxEmpty

\* The two checks that follow offset += limit.
StopsAt(off) == ReachedMaxOffset(data.max_offset, off) \/ PastHardLimit(off)

RewardSweepInit ==
    /\ fn = "epochs_latest_paginated"
    /\ data \in [max_offset : MaxOffsets,
                 nonempty : SUBSET PageSlots,
                 fault : {0, 2}]
    /\ scan = MaxId
    /\ limit \in EpochLimits
    /\ max_retries = DefaultMaxRetries
    /\ reduce_limit_on_error = TRUE
    /\ max_items = None
    /\ offset = 0
    /\ current_limit = limit
    /\ retries = 0
    /\ pc = "loop"
    /\ err = None
    /\ pages = <<>>
    /\ results = <<>>
    /\ lastReq = None
    /\ lastOut = "none"
    /\ lastBatch = <<>>
    /\ failRun = 0
    /\ failStreak = 0
    /\ PriceIdle

\* A page with records: keep it, reset empty_count, move on, run the checks.
EpochsLatest_Page ==
    /\ Running({"epochs_latest_paginated"})
    /\ ~EpochsLatest(data, limit, offset).raised
    /\ LET result == EpochsLatest(data, limit, offset).page IN
       /\ result # <<>>
       /\ pages' = Append(pages, result)
       /\ results' = Extended(result)
       /\ retries' = 0
       /\ offset' = AdvanceByLimit(offset)
       /\ pc' = (IF StopsAt(AdvanceByLimit(offset)) THEN "done" ELSE "loop")
       /\ Remember("page", result)
       /\ UNCHANGED pvars
    /\ UNCHANGED <<params, current_limit, err>>

\* An empty page: count it; break at the eleventh in a row, else move on and
\* run the checks.
EpochsLatest_Empty ==
    /\ Running({"epochs_latest_paginated"})
    /\ ~EpochsLatest(data, limit, offset).raised
    /\ EpochsLatest(data, limit, offset).page = <<>>
    /\ retries' = empty_count + 1
    /\ IF TooManyEmpty(empty_count + 1)
       THEN /\ pc' = "done"
            /\ offset' = offset
       ELSE /\ offset' = AdvanceByLimit(offset)
            /\ pc' = (IF StopsAt(AdvanceByLimit(offset)) THEN "done" ELSE "loop")
    /\ Remember("empty", <<>>)
    /\ UNCHANGED pvars
    /\ UNCHANGED <<params, current_limit, err, output>>

\* except Exception: log a warning and break; all_results is returned.
EpochsLatest_Except ==
    /\ Running({"epochs_latest_paginated"})
    /\ EpochsLatest(data, limit, offset).raised
    /\ pc' = "done"
    /\ Remember("fetch_error", <<>>)
    /\ UNCHANGED pvars
    /\ UNCHANGED <<params, offset, current_limit, retries, err, output>>

RewardSweepNext ==
    \/ EpochsLatest_Page
    \/ EpochsLatest_Empty
    \/ EpochsLatest_Except

RewardSweepSpec == RewardSweepInit /\ [][RewardSweepNext]_<<vars, pvars>>

\* ===================================== SugarClient.get_pools_with_rewards
\* The client's reward pipeline: the token, pool and reward sweeps, their
\* normalisers, and combine_lp_with_rewards on what they give.

\* COLUMNS_LP_EPOCH of sugar.config.columns
COLUMNS_LP_EPOCH == <<"ts", "lp", "votes", "emissions", "incentives", "fees">>

\* df[name] on a frame with these columns raises KeyError if there is none.
HasColumn(columns, name) == \E i \in 1..Len(columns) : columns[i] = name
Column(columns, name) == CHOOSE i \in 1..Len(columns) : columns[i] = name

\* A tokens DataFrame as the mapping address -> decimals of its index.
FrameOf(rows) ==
    [a \in {rows[j].token_address : j \in 1..Len(rows)} |->
        (CHOOSE row \in {rows[j] : j \in 1..Len(rows)} : row.token_address = a).decimals]

\* DataProcessor._process_rewards_with_decimals: (token, from_wei(amount, decimals))
ProcessRewardsWithDecimals(rewards, frame) ==
    [i \in 1..Len(rewards) |->
        [token |-> rewards[i].token,
         amount |-> Scaled(rewards[i].amount, ProcessorTokenDecimals(rewards[i].token, frame))]]

\* DataProcessor.process_epochs_latest: a frame with the columns of
\* COLUMNS_LP_EPOCH, of which the columns "bribes" and "fees" are converted.
ProcessEpochsLatest(raw_data, frame) ==
    IF ~HasColumn(COLUMNS_LP_EPOCH, "bribes") \/ ~HasColumn(COLUMNS_LP_EPOCH, "fees")
    THEN Raised("KeyError")
    ELSE Returned([j \in 1..Len(raw_data) |->
            Epoch(raw_data[j][Column(COLUMNS_LP_EPOCH, "lp")],
                  ProcessRewardsWithDecimals(raw_data[j][Column(COLUMNS_LP_EPOCH, "bribes")], frame),
                  ProcessRewardsWithDecimals(raw_data[j][Column(COLUMNS_LP_EPOCH, "fees")], frame))])

\* SugarClient.get_pools_with_rewards on client C; w is what the three sweeps
\* return and what the price provider answers. get_pools and
\* get_epochs_latest each ask get_tokens(listed_only=False) first.
GetPoolsWithRewards(C, only_with_rewards, w) ==
    LET listed == GetTokens(C, TRUE, FALSE, w.tokens)
        for_pools == GetTokens(listed.C, FALSE, FALSE, w.tokens)
        lp_df == ProcessLpAll(w.pools, Some(FrameOf(for_pools.ret)))
        for_epochs == GetTokens(for_pools.C, FALSE, FALSE, w.tokens)
        epochs_df == ProcessEpochsLatest(w.epochs, FrameOf(for_epochs.ret))
    IN [C |-> for_epochs.C,
        ret |-> IF epochs_df.exc # None THEN epochs_df
                ELSE Returned(CombineLpWithRewards(TRUE, lp_df, epochs_df.val,
                                                   Some(FrameOf(listed.ret)),
                                                   only_with_rewards, w.quotes))]

\* -- what the chain lists
\* Token 1 has 6 decimals and is listed or not; token 2 has 18 and is listed.
ChainTokens ==
    {<<TokenRecord(Tok(1), "A", 6, listed), TokenRecord(Tok(2), "B", 18, TRUE)>> :
        listed \in BOOLEAN}

\* A pool of tokens 1 and 2, as LpSugar.all returns it.
ChainPool(lp, reserve0) ==
    [lp |-> lp, symbol |-> None, type |-> 100, token0 |-> Tok(1), token1 |-> Tok(2),
     reserve0 |-> reserve0, reserve1 |-> 3, token0_fees |-> 2, token1_fees |-> 0]

ChainPools == {<<ChainPool(1, r)>> : r \in {0, 5}} \cup {<<ChainPool(1, 5), ChainPool(2, 5)>>}

\* A record of RewardsSugar.epochsLatest: (ts, lp, votes, emissions,
\* incentives, fees), amounts in wei.
ChainEpoch(lp, incentives) == <<0, lp, 0, 0, incentives, <<>>>>

WeiReward(token, amount) == [token |-> token, amount |-> amount]

\* What a reward sweep returns; a pool may come back in two pages.
ChainEpochs ==
    {<<>>, <<ChainEpoch(1, <<>>)>>, <<ChainEpoch(1, <<WeiReward(Tok(1), 4)>>)>>,
     <<ChainEpoch(1, <<>>), ChainEpoch(1, <<WeiReward(Tok(1), 4)>>)>>}

\* An epochs frame as process_epochs_latest is meant to build it from such a
\* sweep, with its "bribes" column.
EpochFrame(raw_data, frame) ==
    [j \in 1..Len(raw_data) |->
        Epoch(raw_data[j][2], ProcessRewardsWithDecimals(raw_data[j][5], frame), <<>>)]

ChainQuotes == {q \in Quotes : q[Listed6] = None /\ q[Tok(2)] = None}

Chains ==
    [tokens : ChainTokens, pools : ChainPools, epochs : ChainEpochs, quotes : ChainQuotes]

PipelineInit ==
    /\ configured = {}
    /\ connectors = <<>>
    /\ tokens_df = None
    /\ now = 0
    /\ cache = EmptyDict
    /\ eth_price_cache = EmptyDict
    /\ eth_usd_rate = None
    /\ eth_usd_timestamp = 0
    /\ call = None
    /\ log = <<>>
    /\ ret = None
    /\ resolved_at = EmptyDict
    /\ threads = EmptyDict
    /\ client = Some(NewClient)
    /\ SweepIdle

\* client.get_pools_with_rewards(only_with_rewards)
CallGetPoolsWithRewards ==
    /\ \E only_with_rewards \in BOOLEAN, w \in Chains :
          LET r == GetPoolsWithRewards(The(client), only_with_rewards, w)
          IN /\ client' = Some(r.C)
             /\ call' = Some([op |-> "get_pools_with_rewards",
                              only_with_rewards |-> only_with_rewards, chain |-> w])
             /\ ret' = Some(r.ret)
    /\ UNCHANGED <<threads, wiring, now, stores, log, resolved_at, vars>>

\* processor.process_epochs_latest(raw_data, tokens_df)
CallProcessEpochsLatest ==
    /\ \E w \in Chains :
          /\ call' = Some([op |-> "process_epochs_latest", only_with_rewards |-> FALSE,
                           chain |-> w])
          /\ ret' = Some(ProcessEpochsLatest(w.epochs, FrameOf(ProcessTokens(w.tokens, FALSE))))
    /\ UNCHANGED <<client, threads, wiring, now, stores, log, resolved_at, vars>>

\* processor.combine_lp_with_rewards(lp_df, epochs_df, tokens_df,
\* only_with_rewards) on frames of the three sweeps, tokens_df the listed
\* tokens as get_pools_with_rewards passes it.
CallCombineSwept ==
    /\ \E only_with_rewards \in BOOLEAN, w \in Chains :
          LET whole == FrameOf(ProcessTokens(w.tokens, FALSE))
              listed == FrameOf(ProcessTokens(w.tokens, TRUE))
          IN /\ call' = Some([op |-> "combine_lp_with_rewards",
                              only_with_rewards |-> only_with_rewards, chain |-> w])
             /\ ret' = Some(Returned(CombineLpWithRewards(
                            TRUE, ProcessLpAll(w.pools, Some(whole)),
                            EpochFrame(w.epochs, whole), Some(listed),
                            only_with_rewards, w.quotes)))
    /\ UNCHANGED <<client, threads, wiring, now, stores, log, resolved_at, vars>>

PipelineNext ==
    \/ CallGetPoolsWithRewards
    \/ CallProcessEpochsLatest
    \/ CallCombineSwept

PipelineSpec == PipelineInit /\ [][PipelineNext]_<<vars, pvars>>

\* ------------------------------------------------------- claims C31 - C40
\* -- C31
GetTokensCalls == IF call # None /\ The(call).op = "get_tokens" THEN 1..Len(log) ELSE {}

\* The listing the j-th call found cached or swept, whole.
ListingAt(j) == The(log[j].after)

\* The latest sweep up to the j-th call, as process_tokens keeps it with
\* unlisted tokens.
LatestSweep(j) ==
    LET at == CHOOSE i \in 1..j : log[i].swept # None /\ \A k \in (i + 1)..j : log[k].swept = None
    IN ProcessTokens(The(log[at].swept), FALSE)

\* C31: over any sequence of get_tokens calls the listing is swept on the
\* first call and on the calls with refresh = true and on no other;
\* listed_only only selects what is returned: every call returns the latest
\* swept listing, whole when listed_only = false (unlisted tokens included,
\* whatever earlier calls asked for) and its listed tokens otherwise.
C31_TokenListingCache ==
    \A j \in GetTokensCalls :
        /\ log[j].swept # None <=> (j = 1 \/ log[j].refresh)
        /\ ListingAt(j) = LatestSweep(j)
        /\ log[j].value = IF log[j].listed_only
                          THEN SelectSeq(LatestSweep(j), LAMBDA row : row.listed)
                          ELSE LatestSweep(j)

\* A first call for listed tokens swept a listing with an unlisted token; a
\* second call with listed_only = false swept nothing and was handed the
\* unlisted token too.
C31_Witness ==
    /\ GetTokensCalls = 1..2
    /\ log[1].listed_only /\ log[1].swept # None
    /\ ~log[2].listed_only /\ ~log[2].refresh /\ log[2].swept = None
    /\ \E k \in 1..Len(log[2].value) : ~log[2].value[k].listed

\* -- C32
\* C32: the id sweep of the contract wrappers (BaseContract._paginate_by_id,
\* behind VeSugar.all_paginated) stops after a bounded number of consecutive
\* failures: once as many iterations in a row have failed as the engine's
\* retry count allows, the sweep is no longer running.
C32_BoundedFailures ==
    (fn = "_paginate_by_id" /\ failStreak >= DefaultMaxRetries) => pc # "loop"

\* -- C33
\* C33: an offset sweep through BaseContract._paginate never returns normally
\* when its latest fetch failed: a fault that was not recovered from ends the
\* sweep with an error, not with the records collected so far.
C33_FaultsSurfaced ==
    (fn = "_paginate" /\ lastOut = "fetch_error") => pc # "done"

\* -- C36
\* The latest iteration of paginate_by_id failed and skipped its cursor.
Skipped ==
    /\ fn = "paginate_by_id" /\ pc = "loop"
    /\ lastOut \in {"fetch_error", "index_error"}
    /\ offset # The(lastReq).offset

\* The batches yielded so far whose last record carries an id.
GoodPages == SelectSeq(pages, HasId)

\* Where the cursor stands after the batches ps when nothing was skipped.
CursorAfter(ps) == IF ps = <<>> THEN DefaultStartId ELSE AfterLastId(ps[Len(ps)])

UnskippedCursor == CursorAfter(GoodPages)

\* Where the latest fetch had to be issued: before the batch it returned.
UnskippedRequest ==
    IF lastOut = "page" THEN CursorAfter(SubSeq(GoodPages, 1, Len(GoodPages) - 1))
    ELSE UnskippedCursor

\* limit >= 2^(max_retries - 1): the retry budget runs out before the page
\* size reaches 1.
NoSkipRegime == limit >= 2 ^ (max_retries - 1)

\* C36: paginate_by_id with reduce_limit_on_error at its default skips a
\* cursor only when limit < 2^(max_retries - 1). Otherwise, and so with the
\* defaults limit = 500, max_retries = 3, every fetch is issued at start_id
\* or at (last id of the previous batch) + 1, and a run of max_retries
\* failures, all at one cursor, ends in PaginationError for that cursor.
C36_NoSkipWithDefaults ==
    (fn = "paginate_by_id" /\ reduce_limit_on_error) =>
        /\ Skipped => ~NoSkipRegime
        /\ DefaultLimit >= 2 ^ (DefaultMaxRetries - 1)
        /\ NoSkipRegime =>
              /\ lastReq # None => The(lastReq).offset = UnskippedRequest
              /\ pc = "loop" => offset = UnskippedCursor
              /\ failStreak >= max_retries =>
                    /\ pc = "raised"
                    /\ failRun = max_retries
                    /\ The(err).offset = UnskippedCursor

\* With the defaults a page was fetched, then three fetches in a row failed
\* at the next cursor with page sizes 500, 250, 125 and the sweep raised.
C36_Witness ==
    /\ fn = "paginate_by_id" /\ reduce_limit_on_error
    /\ limit = DefaultLimit /\ max_retries = DefaultMaxRetries
    /\ pages # <<>> /\ pc = "raised" /\ failRun = DefaultMaxRetries
    /\ The(lastReq) = [limit |-> Halve(Halve(DefaultLimit)), offset |-> UnskippedCursor]

\* A sweep with limit 2 and max_retries 3 skipped a cursor.
C36_SkipWitness == Skipped /\ reduce_limit_on_error /\ limit = 2 /\ max_retries = 3

\* -- C37
\* The step is a call of get_price_usd for the key of the call before it,
\* made with no time passed since the state it starts from.
AsksAgain == now' = now /\ Got' /\ Key' = Key /\ <<call, log, ret, cache>>' # <<call, log, ret, cache>>

\* C37: a get_price_usd that found nothing fresh in the cache and got absent
\* from every configured source leaves the cache as it found it, with no
\* fresh entry under the token's key; a call for the same token made right
\* after it, or after any other time, asks the sources again, from the first
\* configured one.
C37_NoNegativeCaching ==
    [][/\ Unavailable' =>
            /\ cache' = The(call').before.cache
            /\ resolved_at' = The(call').before.at
            /\ AskedSources' = InPriority'
            /\ Has(cache', Key') => now' - Seconds(cache'[Key'].timestamp) >= Seconds(60)
       /\ (Unavailable /\ AsksAgain) =>
            /\ Len(log') >= 1 \/ configured = {}
            /\ AskedSources' = SubSeq(InPriority, 1, Len(log'))
      ]_<<vars, pvars>>

\* Two sources were asked and both returned absent: the call raised and the
\* cache, empty before, is empty after.
C37_Witness ==
    /\ Unavailable /\ configured = {"coingecko", "defillama"}
    /\ AskedSources = <<"coingecko", "defillama">>
    /\ The(call).raise_on_failure /\ The(ret).exc # None
    /\ The(call).before.cache = EmptyDict /\ cache = EmptyDict

\* -- C39
\* The latest call was get_price_usd on the oracle source and returned a price.
OraclePriced == Got /\ The(ret).val # None

\* Every price the oracle source returns is above zero.
PositiveWhenPriced == OraclePriced => Positive(The(The(ret).val))

\* The call found a rate that is not positive cached under the token's key
\* (get_price_usd leaves a cached rate as it is).
CachedNonPositive ==
    /\ ~StableAsset(Token) /\ Key # Lower(WETH_ADDRESS)
    /\ Key \in The(call).before.cached
    /\ ~Positive(eth_price_cache[Key])

\* Some rate query of the call was answered with a rate that is not positive.
QueriedNonPositive ==
    \E j \in 1..Len(log) :
        /\ log[j].ev = "rates" /\ log[j].rates # None
        /\ \E i \in 1..Len(The(log[j].rates)) : ~Positive(The(log[j].rates)[i])

\* A rate of the token itself that is not positive, cached or just queried,
\* yields None.
TokenRateAbsent ==
    (Got /\ (CachedNonPositive
             \/ /\ Key # Lower(WETH_ADDRESS) /\ log # <<>>
                /\ log[1].tokens = <<Token>> /\ log[1].rates # None
                /\ ~Positive(The(log[1].rates)[1])))
        => The(ret).val = None

\* C39: after any sequence of prefetch_prices, get_price_usd and clear_cache
\* every price OraclePriceSource.get_price_usd returns is > 0, and a call
\* that found a cached rate <= 0 or was answered a rate <= 0 by the contract
\* returns None.
C39_OraclePositive ==
    /\ PositiveWhenPriced
    /\ (Got /\ (CachedNonPositive \/ QueriedNonPositive)) => The(ret).val = None

\* -- C40
\* How many page queries tokens_paginated has sent.
Queries == IF lastReq = None THEN 0 ELSE (The(lastReq).offset \div limit) + 1

\* The answer to the k-th page query.
AnswerTo(k) == IF k > MaxPages THEN Page(<<>>) ELSE data.answers[k]

\* The answer is a page with more records than there are connectors.
Full(k) == ~AnswerTo(k).raised /\ Len(AnswerTo(k).page) > Len(data.connectors)

\* The pages fetched so far that have more records than there are
\* connectors, joined in fetch order.
RECURSIVE FullPages(_)
FullPages(k) ==
    IF k = 0 THEN <<>>
    ELSE FullPages(k - 1) \o (IF Full(k) THEN AnswerTo(k).page ELSE <<>>)

\* C40: tokens_paginated queries pages at offsets 0, limit, 2 * limit, ...;
\* its result holds exactly the fetched pages that have more records than
\* there are connectors, in fetch order, and every query before the latest
\* was answered with such a page: nothing is fetched after the first page
\* that is empty or has at most as many records as there are connectors.
C40_TokenSweepStopRule ==
    fn = "tokens_paginated" =>
        /\ results = FullPages(Queries)
        /\ \A k \in 1..(Queries - 1) : Full(k)
        /\ lastReq # None => The(lastReq) = [limit |-> limit, offset |-> (Queries - 1) * limit]
        /\ pc = "loop" => (offset = Queries * limit /\ \A k \in 1..Queries : Full(k))
        /\ pc = "done" => ~Full(Queries)

\* Two connectors: a page of three records was kept, then a page of two
\* records ended the sweep and was left out.
C40_Witness ==
    /\ fn = "tokens_paginated" /\ pc = "done"
    /\ Len(data.connectors) = 2
    /\ Queries = 2 /\ lastOut = "stop" /\ Len(lastBatch) = 2
    /\ results = TokenPage(1, 3)

\* -- C34
\* A sweep of epochs_latest_paginated with max_offset given that met no fault.
SparseSweep ==
    fn = "epochs_latest_paginated" /\ data.max_offset # None /\ lastOut # "fetch_error"

\* The records of the first k pages, in fetch order.
RECURSIVE EpochPages(_)
EpochPages(k) ==
    IF k = 0 THEN <<>> ELSE EpochPages(k - 1) \o EpochsLatest(data, limit, (k - 1) * limit).page

\* C34: without fetch faults, epochs_latest_paginated with max_offset = M
\* queries the offsets 0, limit, 2 * limit, ... and has queried every one
\* below M when it returns, whatever pages were empty; it returns the records
\* of the pages it fetched in fetch order, and the number of its queries is
\* bounded.
C34_CoversEveryPoolIndex ==
    SparseSweep =>
        /\ results = EpochPages(Queries)
        /\ lastReq # None => The(lastReq) = [limit |-> limit, offset |-> (Queries - 1) * limit]
        /\ Queries <= (HardLimit \div limit) + 1
        /\ pc = "done" => Queries * limit >= The(data.max_offset)

\* What the sweep does: it returns at the first of the eleventh empty page in
\* a row, an offset at or past a max_offset that is not zero, and an offset
\* past the hard limit.
EpochStopRule ==
    SparseSweep =>
        /\ results = EpochPages(Queries)
        /\ Queries <= (HardLimit \div limit) + 1
        /\ pc = "done" <=>
              \/ empty_count > MaxEmpty
              \/ Queries >= 1 /\ ReachedMaxOffset(data.max_offset, Queries * limit)
              \/ Queries >= 1 /\ Queries * limit > HardLimit

\* -- C35
\* The latest call, and the rows it returned.
Pipelined(op) == call # None /\ The(call).op = op
Chain == The(call).chain

\* The token listing of the chain as the client holds it, unlisted tokens
\* included, and the decimals it records.
ChainListing == FrameOf(ProcessTokens(Chain.tokens, FALSE))

\* amount of token, scaled by the decimals the listing records, at the price
\* the provider answers; Decimal(0) for no amount or no price.
ValuedByListing(amount_wei, token) ==
    IF amount_wei = 0 \/ Chain.quotes[Lower(token)] = None THEN Zero
    ELSE DecMul(Scaled(amount_wei, ChainListing[token]), The(Chain.quotes[Lower(token)]))

\* Every reserve and fee quantity of every row is valued by the listing.
RowsValuedByListing ==
    \A j \in 1..Len(The(ret).val) :
        LET row == The(ret).val[j]
        IN /\ row.usd # None
           /\ row.pool.token0 \in DOMAIN ChainListing /\ row.pool.token1 \in DOMAIN ChainListing
           /\ The(row.usd).reserve0_usd = ValuedByListing(row.pool.reserve0, row.pool.token0)
           /\ The(row.usd).reserve1_usd = ValuedByListing(row.pool.reserve1, row.pool.token1)
           /\ The(row.usd).token0_fees_usd = ValuedByListing(row.pool.token0_fees, row.pool.token0)
           /\ The(row.usd).token1_fees_usd = ValuedByListing(row.pool.token1_fees, row.pool.token1)

\* C35: get_pools_with_rewards returns rows in which every reserve and fee
\* quantity of a pool is scaled by 10^decimals of its token as the token
\* listing records it, listed or not, and then multiplied by the price.
C35_ListingDecimals ==
    Pipelined("get_pools_with_rewards") => (The(ret).exc = None /\ RowsValuedByListing)

\* The same of combine_lp_with_rewards on the frames get_pools_with_rewards
\* hands it.
CombineValuesByListing ==
    Pipelined("combine_lp_with_rewards") => RowsValuedByListing

\* process_epochs_latest never returns.
EpochsAlwaysRaise ==
    (Pipelined("process_epochs_latest") \/ Pipelined("get_pools_with_rewards"))
        => The(ret) = Raised("KeyError")

\* -- C38
\* C38: the rows combine_lp_with_rewards returns name no pool twice, for the
\* inner and the left join, whatever the reward sweep listed, a pool in two
\* pages included.
C38_OneRowPerPool ==
    (Pipelined("combine_lp_with_rewards") /\ The(ret).exc = None) =>
        \A i, j \in 1..Len(The(ret).val) :
            The(ret).val[i].pool.lp = The(ret).val[j].pool.lp => i = j

\* The rows name no pool twice when the reward listing names none twice.
OneRowPerListedPool ==
    (Pipelined("combine_lp_with_rewards")
     /\ \A i, j \in 1..Len(Chain.epochs) : Chain.epochs[i][2] = Chain.epochs[j][2] => i = j)
        => \A i, j \in 1..Len(The(ret).val) :
              The(ret).val[i].pool.lp = The(ret).val[j].pool.lp => i = j
====
